---------------------------- MODULE Spec2Model ----------------------------
(***************************************************************************)
(* A model of the ral runtime: the VM / scheduler (src/src/runtime/vm.rs), *)
(* the event instances and their bytecode interpreter                      *)
(* (src/src/runtime/instrument.rs), the Value operators                    *)
(* (src/src/runtime/value.rs), the AudioBuffer                             *)
(* (src/src/audio/audio_buffer.rs) and the generators the instruments of   *)
(* the model call (src/src/audio/components/generators).                   *)
(*                                                                         *)
(* Numbers.  f32 seconds of a score event are modelled as an integer count *)
(* of 1/TimeDen seconds, so `(t * sr) as usize` is (t * sr) \div TimeDen.  *)
(* Float values of the language are the integer-valued floats.  An audio  *)
(* sample is stored as an integer count of 1/SampleDen (the sample 1.0 is  *)
(* stored as SampleDen).                                                   *)
(* Indices are 0-based in the code and 1-based in the sequences here.      *)
(***************************************************************************)
EXTENDS Integers, Sequences, FiniteSets, TLC

\* ------------------------------------------------------------------ bounds
MaxEvents == 2            \* score events of a program
MaxCallbacks == 3         \* device callbacks of a --dac run
TimeDen == 1000           \* resolution of the time literals (1/TimeDen s)
SampleDen == 1000         \* resolution of the audio samples (1/SampleDen)
DeviceSampleRate == 1000  \* sample rate of the output device (device mode)
DeviceChannels == 2       \* channels of the output device (device mode)
CallbackFrames == {3, 8}  \* frame counts the device asks for
NoiseSeeds == {0, 1}      \* states of the thread-local random generator
MaxRc == 2                \* Rc<AudioBuffer> allocations of one invocation
MaxStack == 3             \* depth of the operand stack of that invocation
GeneratedSamples == {500}   \* the sample a generator fills its buffer with

\* ------------------------------------------------------- program constants
SAMPLE_RATE == 48000                \* vm.rs:317 / vm.rs:361
BUFFER_SIZE == SAMPLE_RATE \div 100 \* vm.rs:318 / vm.rs:362
CHANNELS == 2                       \* vm.rs:319 / vm.rs:363
DRIVER_STEP == 480                  \* vm.rs:349 / vm.rs:380

None == "Option::None"

\* ------------------------------------------------------------ control flow
\* `let x = v; F(x)`: v is evaluated once, and F of its value is the result.
Let(v, F(_)) == CHOOSE r \in { F(x) : x \in {v} } : TRUE

\* `for i in lo..hi { st = Body(st, i) }`, evaluated by halving the range so
\* that a block of 480 frames does not nest 480 evaluations.
RECURSIVE ForRange(_, _, _, _)
ForRange(Body(_, _), lo, hi, st) ==
    IF hi <= lo THEN st
    ELSE IF hi = lo + 1 THEN Body(st, lo)
    ELSE LET mid == lo + ((hi - lo) \div 2)
         IN Let(ForRange(Body, lo, mid, st), LAMBDA a : ForRange(Body, mid, hi, a))

\* ------------------------------------------------------------------- Value
Value_int(n) == [value_type |-> "Int", value |-> n]
Value_float(x) == [value_type |-> "Float", value |-> x]
Value_string(s) == [value_type |-> "String", value |-> s]
Value_audio(b) == [value_type |-> "Audio", value |-> b]
Value_default == Value_int(0)

\* ------------------------------------------------------------- AudioBuffer
AudioBuffer_new(channels, buffer_size) ==
    [channels |-> channels, buffer_size |-> buffer_size,
     data |-> [ch \in 1..channels |-> [s \in 1..buffer_size |-> 0]]]

get_sample(self, channel, sample) == self.data[channel + 1][sample + 1]

set_sample(self, channel, sample, value) ==
    [self EXCEPT !.data[channel + 1][sample + 1] = value]

\* The assertion that opens add_from, subtract_from and multiply_by.
same_buffer_size(self, source) == self.buffer_size = source.buffer_size

\* add_from that stores the source's sample instead of adding it.
add_from_overwriting(self, source) ==
    [self EXCEPT !.data =
        [ch \in 1..self.channels |->
            IF ch - 1 < source.channels
            THEN [s \in 1..self.buffer_size |-> get_sample(source, ch - 1, s - 1)]
            ELSE self.data[ch]]]

add_from(self, source) ==
    [self EXCEPT !.data =
        [ch \in 1..self.channels |->
            IF ch - 1 < source.channels
            THEN [s \in 1..self.buffer_size |->
                    self.data[ch][s] + get_sample(source, ch - 1, s - 1)]
            ELSE self.data[ch]]]

subtract_from(self, source) ==
    [self EXCEPT !.data =
        [ch \in 1..self.channels |->
            IF ch - 1 < source.channels
            THEN [s \in 1..self.buffer_size |->
                    self.data[ch][s] - get_sample(source, ch - 1, s - 1)]
            ELSE self.data[ch]]]

multiply_by(self, other) ==
    [self EXCEPT !.data =
        [ch \in 1..self.channels |->
            IF ch - 1 < other.channels
            THEN [s \in 1..self.buffer_size |->
                    (self.data[ch][s] * get_sample(other, ch - 1, s - 1)) \div SampleDen]
            ELSE self.data[ch]]]

apply_gain(self, gain) ==
    [self EXCEPT !.data =
        [ch \in 1..self.channels |->
            [s \in 1..self.buffer_size |-> self.data[ch][s] * gain]]]

apply_add(self, add) ==
    [self EXCEPT !.data =
        [ch \in 1..self.channels |->
            [s \in 1..self.buffer_size |-> self.data[ch][s] + add * SampleDen]]]

\* ------------------------------------------------------- Value operators
\* The result of a branch that is unreachable!(), of a failed assert! and of
\* an unwrap() of nothing: the thread panics.
Panic == [value_type |-> "Panic", value |-> 0]

get_int(v) == v.value
get_float(v) == v.value
get_audio(v) == v.value
get_string(v) == v.value

\* `x as i64` of an f32 and `n as f32` of an i64, on the integer-valued floats.
float_as_i64(x) == x
int_as_f32(n) == n

\* Rust's integer division truncates toward zero and panics on a zero divisor.
TruncDiv(a, b) ==
    IF (a >= 0) = (b > 0) THEN a \div b
    ELSE -((IF a >= 0 THEN a ELSE -a) \div (IF b >= 0 THEN b ELSE -b))

Value_mul(self, rhs) ==
    CASE self.value_type = "Audio" ->
            (CASE rhs.value_type = "Audio" ->
                    IF same_buffer_size(get_audio(self), get_audio(rhs))
                    THEN Value_audio(multiply_by(get_audio(self), get_audio(rhs)))
                    ELSE Panic
               [] rhs.value_type = "Float" ->
                    Value_audio(apply_gain(get_audio(self), get_float(rhs)))
               [] rhs.value_type = "Int" ->
                    Value_audio(apply_gain(get_audio(self), int_as_f32(get_int(rhs))))
               [] OTHER -> Panic)
      [] self.value_type = "Int" ->
            (CASE rhs.value_type = "Int" -> Value_int(get_int(self) * get_int(rhs))
               [] rhs.value_type = "Float" ->
                    Value_int(get_int(self) * float_as_i64(get_float(rhs)))
               [] OTHER -> Panic)
      [] self.value_type = "Float" ->
            (CASE rhs.value_type = "Int" ->
                    Value_float(get_float(self) * int_as_f32(get_int(rhs)))
               [] rhs.value_type = "Float" ->
                    Value_float(get_float(self) * get_float(rhs))
               [] OTHER -> Panic)
      [] OTHER -> Panic

\* The quotient of two floats is kept on the integer-valued floats (x / 0.0
\* is an infinity in the code; it is kept as 0 here and no claim reads it).
Value_div(self, rhs) ==
    CASE self.value_type = "Int" ->
            (CASE rhs.value_type = "Int" ->
                    IF get_int(rhs) = 0 THEN Panic
                    ELSE Value_int(TruncDiv(get_int(self), get_int(rhs)))
               [] rhs.value_type = "Float" ->
                    IF float_as_i64(get_float(rhs)) = 0 THEN Panic
                    ELSE Value_int(TruncDiv(get_int(self), float_as_i64(get_float(rhs))))
               [] OTHER -> Panic)
      [] self.value_type = "Float" ->
            (CASE rhs.value_type = "Int" ->
                    Value_float(IF get_int(rhs) = 0 THEN 0
                                ELSE TruncDiv(get_float(self), int_as_f32(get_int(rhs))))
               [] rhs.value_type = "Float" ->
                    Value_float(IF get_float(rhs) = 0 THEN 0
                                ELSE TruncDiv(get_float(self), get_float(rhs)))
               [] OTHER -> Panic)
      [] OTHER -> Panic

\* Add whose Int arm gives a Float for a Float on the right.
Value_add_promoting(self, rhs) ==
    CASE self.value_type = "Audio" ->
            (CASE rhs.value_type = "Audio" ->
                    IF same_buffer_size(get_audio(self), get_audio(rhs))
                    THEN Value_audio(add_from(get_audio(self), get_audio(rhs)))
                    ELSE Panic
               [] rhs.value_type = "Float" ->
                    Value_audio(apply_add(get_audio(self), get_float(rhs)))
               [] rhs.value_type = "Int" ->
                    Value_audio(apply_add(get_audio(self), int_as_f32(get_int(rhs))))
               [] OTHER -> Panic)
      [] self.value_type = "Int" ->
            (CASE rhs.value_type = "Int" -> Value_int(get_int(self) + get_int(rhs))
               [] rhs.value_type = "Float" ->
                    Value_float(int_as_f32(get_int(self)) + get_float(rhs))
               [] OTHER -> Panic)
      [] self.value_type = "Float" ->
            (CASE rhs.value_type = "Int" ->
                    Value_float(get_float(self) + int_as_f32(get_int(rhs)))
               [] rhs.value_type = "Float" ->
                    Value_float(get_float(self) + get_float(rhs))
               [] OTHER -> Panic)
      [] self.value_type = "String" ->
            \* get_string of the right operand is not guarded by its tag
            IF rhs.value_type = "String"
            THEN Value_string(get_string(self) \o get_string(rhs))
            ELSE Panic
      [] OTHER -> Panic

Value_add(self, rhs) ==
    CASE self.value_type = "Audio" ->
            (CASE rhs.value_type = "Audio" ->
                    IF same_buffer_size(get_audio(self), get_audio(rhs))
                    THEN Value_audio(add_from(get_audio(self), get_audio(rhs)))
                    ELSE Panic
               [] rhs.value_type = "Float" ->
                    Value_audio(apply_add(get_audio(self), get_float(rhs)))
               [] rhs.value_type = "Int" ->
                    Value_audio(apply_add(get_audio(self), int_as_f32(get_int(rhs))))
               [] OTHER -> Panic)
      [] self.value_type = "Int" ->
            (CASE rhs.value_type = "Int" -> Value_int(get_int(self) + get_int(rhs))
               [] rhs.value_type = "Float" ->
                    Value_int(get_int(self) + float_as_i64(get_float(rhs)))
               [] OTHER -> Panic)
      [] self.value_type = "Float" ->
            (CASE rhs.value_type = "Int" ->
                    Value_float(get_float(self) + int_as_f32(get_int(rhs)))
               [] rhs.value_type = "Float" ->
                    Value_float(get_float(self) + get_float(rhs))
               [] OTHER -> Panic)
      [] self.value_type = "String" ->
            \* get_string of the right operand is not guarded by its tag
            IF rhs.value_type = "String"
            THEN Value_string(get_string(self) \o get_string(rhs))
            ELSE Panic
      [] OTHER -> Panic

Value_sub(self, rhs) ==
    CASE self.value_type = "Audio" ->
            (CASE rhs.value_type = "Audio" ->
                    IF same_buffer_size(get_audio(self), get_audio(rhs))
                    THEN Value_audio(subtract_from(get_audio(self), get_audio(rhs)))
                    ELSE Panic
               [] rhs.value_type = "Float" ->
                    Value_audio(apply_add(get_audio(self), -get_float(rhs)))
               [] rhs.value_type = "Int" ->
                    Value_audio(apply_add(get_audio(self), int_as_f32(-get_int(rhs))))
               [] OTHER -> Panic)
      [] self.value_type = "Int" ->
            (CASE rhs.value_type = "Float" ->
                    Value_int(get_int(self) - float_as_i64(get_float(rhs)))
               [] rhs.value_type = "Int" -> Value_int(get_int(self) - get_int(rhs))
               [] OTHER -> Panic)
      [] self.value_type = "Float" ->
            (CASE rhs.value_type = "Float" ->
                    Value_float(get_float(self) - get_float(rhs))
               [] rhs.value_type = "Int" ->
                    Value_float(get_float(self) - int_as_f32(get_int(rhs)))
               [] OTHER -> Panic)
      [] OTHER -> Panic

\* -------------------------------------------------------------- components
StreamInfo(sample_rate, buffer_size, channels) ==
    [sample_rate |-> sample_rate, buffer_size |-> buffer_size, channels |-> channels]

Oscil_new == [name |-> "Oscil", arg_count |-> 3, phase |-> 0]
Noise_new == [name |-> "Noise", arg_count |-> 1]

\* Shape::try_from: Ok(shape) for 0..3, Err(OutOfBounds) otherwise.
Shape_try_from(value) == [ok |-> value \in 0..3, shape |-> value]

\* The phase x of an oscillator is kept as the numerator p of x = p / sr, so
\* that the step 1.0 / (sr / freq) is freq.  ToUnit is the sample p / sr.
ToUnit(p, sr) == (p * SampleDen) \div sr

\* sin(2 pi x) for the phase x = p / sr, by the parabola through its zeros and
\* extrema, as a sample.
SinTurn(p, sr) ==
    LET q == IF p < 0 THEN -p ELSE p
        u == ToUnit(IF 2 * q <= sr THEN 2 * q ELSE 2 * q - sr, sr)
        h == (4 * u * (SampleDen - u)) \div SampleDen
        v == IF 2 * q <= sr THEN h ELSE -h
    IN IF p < 0 THEN -v ELSE v

\* One pass of the sample loop of Oscil::process.
Oscil_sample(st, sample) ==
    LET sr == st.sr
        reset == IF st.shape = 1 THEN -sr ELSE 0
        p0 == IF st.phase >= sr THEN reset ELSE st.phase
        p1 == IF st.shape = 1 THEN p0 + 2 * st.freq ELSE p0 + st.freq
        value == CASE st.shape = 0 -> SinTurn(p0, sr)
                   [] st.shape = 1 -> ToUnit(p0, sr)
                   [] st.shape = 2 -> IF 2 * p1 < sr THEN -SampleDen ELSE SampleDen
                   [] st.shape = 3 -> IF 2 * p1 < sr THEN ToUnit(4 * p1 - sr, sr)
                                      ELSE ToUnit(4 * (sr - p1) - sr, sr)
    IN [st EXCEPT !.phase = p1,
                  !.buffer = set_sample(st.buffer, 0, sample, value * st.amps)]

\* Oscil::process that leaves the component's phase as it found it.
Oscil_process_forgetting_phase(self, stream_info, args) ==
    LET buffer == AudioBuffer_new(1, stream_info.buffer_size)
        amps == get_float(args[1])
        freq == get_float(args[2])
        shape == Shape_try_from(get_int(args[3]))
    IN IF ~shape.ok
       THEN [value |-> Value_audio(buffer), component |-> self]
       ELSE Let(ForRange(Oscil_sample, 0, stream_info.buffer_size,
                    [phase |-> self.phase, buffer |-> buffer, shape |-> shape.shape,
                     freq |-> freq, amps |-> amps, sr |-> stream_info.sample_rate]),
                LAMBDA r : [value |-> Value_audio(r.buffer), component |-> self])

Oscil_process(self, stream_info, args) ==
    LET buffer == AudioBuffer_new(1, stream_info.buffer_size)
        amps == get_float(args[1])
        freq == get_float(args[2])
        shape == Shape_try_from(get_int(args[3]))
    IN IF ~shape.ok
       THEN [value |-> Value_audio(buffer), component |-> self]
       ELSE Let(ForRange(Oscil_sample, 0, stream_info.buffer_size,
                    [phase |-> self.phase, buffer |-> buffer, shape |-> shape.shape,
                     freq |-> freq, amps |-> amps, sr |-> stream_info.sample_rate]),
                LAMBDA r : [value |-> Value_audio(r.buffer),
                            component |-> [self EXCEPT !.phase = r.phase]])

\* The n-th draw of gen_range(-1.0..1.0) of the thread's generator in state
\* seed, as a sample in [-1, 1).
gen_range(seed, n) == (((seed + 3 * n) % 4) - 2) * (SampleDen \div 2)

\* Noise::process.  The two loops set the sample (channel, sample) to the
\* draw number sample * channels + channel of the call, times args[0].
Noise_process(self, stream_info, args, rng) ==
    LET channels == stream_info.channels
        buffer_size == stream_info.buffer_size
        amps == get_float(args[1])
    IN [value |-> Value_audio(
            [channels |-> channels, buffer_size |-> buffer_size,
             data |-> [ch \in 1..channels |-> [s \in 1..buffer_size |->
                        gen_range(rng.seed, rng.draws + (s - 1) * channels + (ch - 1))
                            * amps]]]),
        component |-> self,
        rng |-> [rng EXCEPT !.draws = rng.draws + buffer_size * channels]]

\* Component::process, dispatched on the component of the slot.
process(self, stream_info, args, rng) ==
    CASE self.name = "Oscil" ->
            Let(Oscil_process(self, stream_info, args),
                LAMBDA r : [value |-> r.value, component |-> r.component, rng |-> rng])
      [] self.name = "Noise" -> Noise_process(self, stream_info, args, rng)

\* ------------------------------------------------------------- interpreter
Op(name, arg) == [op |-> name, arg |-> arg]

Top(stack) == stack[Len(stack)]
Pop(stack) == SubSeq(stack, 1, Len(stack) - 1)

\* One pass of the loop of run_ops over the op `op`.  st holds the locals of
\* run_ops (stack, locals), the parts of the instance it writes (variables,
\* the components of the function), buffer_to_fill, the thread's random
\* generator, and `outputs`: the Audio values Output has mixed so far, each
\* with the instance (id) and the function (perf or init) that passed it.
run_op(st, op, args, stream_info) ==
    LET stack == st.stack
        n == Len(stack)
        abort == [st EXCEPT !.panicked = TRUE]
        binary(v) == IF v.value_type = "Panic" THEN abort
                     ELSE [st EXCEPT !.stack = Append(SubSeq(stack, 1, n - 2), v)]
    IN
    IF st.panicked THEN st
    ELSE CASE op.op = "AssignLocal" ->
                IF n = 0 \/ op.arg >= Len(st.locals) THEN abort
                ELSE [st EXCEPT !.locals[op.arg + 1] = Top(stack), !.stack = Pop(stack)]
           [] op.op = "AssignMember" ->
                IF n = 0 \/ op.arg >= Len(st.variables) THEN abort
                ELSE [st EXCEPT !.variables[op.arg + 1] = Top(stack), !.stack = Pop(stack)]
           [] op.op = "CallComponent" ->
                IF op.arg >= Len(st.components) THEN abort
                ELSE LET component == st.components[op.arg + 1]
                         arg_count == component.arg_count
                     IN IF n < arg_count THEN abort
                        ELSE Let(process(component, stream_info,
                                         SubSeq(stack, n - arg_count + 1, n), st.rng),
                                 LAMBDA r :
                                     [st EXCEPT !.stack = Append(SubSeq(stack, 1, n - arg_count),
                                                                 r.value),
                                                !.components[op.arg + 1] = r.component,
                                                !.rng = r.rng])
           [] op.op = "DeclareLocal" ->
                IF n = 0 THEN abort
                ELSE [st EXCEPT !.locals = Append(st.locals, Top(stack)),
                                !.stack = Pop(stack)]
           [] op.op = "LoadArg" ->
                IF op.arg >= Len(args) THEN abort
                ELSE [st EXCEPT !.stack = Append(stack, args[op.arg + 1])]
           [] op.op = "LoadConstant" ->
                [st EXCEPT !.stack = Append(stack, op.arg)]
           [] op.op = "LoadLocal" ->
                IF op.arg >= Len(st.locals) THEN abort
                ELSE [st EXCEPT !.stack = Append(stack, st.locals[op.arg + 1])]
           [] op.op = "LoadMember" ->
                IF op.arg >= Len(st.variables) THEN abort
                ELSE [st EXCEPT !.stack = Append(stack, st.variables[op.arg + 1])]
           [] op.op = "Output" ->
                IF n = 0 THEN abort
                ELSE LET audio == Top(stack)
                     IN IF audio.value_type # "Audio"
                           \/ ~same_buffer_size(st.buffer, get_audio(audio))
                        THEN abort
                        ELSE [st EXCEPT !.stack = Pop(stack),
                                        !.buffer = add_from(st.buffer, get_audio(audio)),
                                        !.outputs = Append(st.outputs,
                                            [id |-> st.id, perf |-> st.perf,
                                             audio |-> get_audio(audio)])]
           [] op.op \in {"Print", "PrintLn"} ->
                IF n = 0 THEN abort ELSE [st EXCEPT !.stack = Pop(stack)]
           [] op.op \in {"PrintEmpty", "PrintLnEmpty"} -> st
           [] op.op = "Add" ->
                IF n < 2 THEN abort
                ELSE binary(Value_add(stack[n - 1], stack[n]))
           [] op.op = "Divide" ->
                IF n < 2 THEN abort
                ELSE binary(Value_div(stack[n - 1], stack[n]))
           [] op.op = "Multiply" ->
                IF n < 2 THEN abort
                ELSE binary(Value_mul(stack[n - 1], stack[n]))
           [] op.op = "Subtract" ->
                IF n < 2 THEN abort
                ELSE binary(Value_sub(stack[n - 1], stack[n]))

\* InstrumentEventInstance::run_ops.  env carries what outlives the call:
\* buffer_to_fill, the random generator, the mixed outputs, the panic flag.
run_ops(self, perf, stream_info, env) ==
    LET func == IF perf THEN self.perf_func ELSE self.init_func
        args == IF perf THEN self.perf_args ELSE self.init_args
        body(st, i) == run_op(st, func.ops[i + 1], args, stream_info)
    IN Let(ForRange(body, 0, Len(func.ops),
                    [stack |-> <<>>, locals |-> <<>>, variables |-> self.variables,
                     components |-> func.components, buffer |-> env.buffer,
                     rng |-> env.rng, outputs |-> env.outputs,
                     panicked |-> env.panicked, id |-> self.id, perf |-> perf]),
           LAMBDA r :
               [instance |->
                    IF perf
                    THEN [self EXCEPT !.variables = r.variables,
                                      !.perf_func.components = r.components]
                    ELSE [self EXCEPT !.variables = r.variables,
                                      !.init_func.components = r.components],
                env |-> [buffer |-> r.buffer, rng |-> r.rng, outputs |-> r.outputs,
                         panicked |-> r.panicked],
                stack |-> r.stack])

run_init(self, stream_info, env) == run_ops(self, FALSE, stream_info, env)

\* run_perf that compares the counter with the duration before it adds the
\* block to it.
run_perf_compare_first(self, stream_info, env) ==
    LET sample_counter == self.sample_counter + stream_info.buffer_size
    IN Let(run_ops(self, TRUE, stream_info, env),
           LAMBDA r : [instance |-> [r.instance EXCEPT !.sample_counter = sample_counter],
                       env |-> r.env,
                       over |-> self.sample_counter >= self.duration_samples])

\* run_ops, then the instance's sample counter grows by the block;
\* `over` is the value run_perf returns.
run_perf(self, stream_info, env) ==
    LET sample_counter == self.sample_counter + stream_info.buffer_size
    IN Let(run_ops(self, TRUE, stream_info, env),
           LAMBDA r : [instance |-> [r.instance EXCEPT !.sample_counter = sample_counter],
                       env |-> r.env,
                       over |-> sample_counter >= self.duration_samples])

\* ------------------------------------------------------------- instruments
InstrumentVariable(variable_name, variable_type) ==
    [variable_name |-> variable_name, variable_type |-> variable_type]

Function(ops, args, locals, components) ==
    [ops |-> ops, final_ops |-> None, args |-> args, locals |-> locals,
     components |-> components]

Function_finalise(self) == [self EXCEPT !.final_ops = self.ops]

Function_create_event_instance(self) ==
    [ops |-> self.final_ops, components |-> self.components]

Instrument_finalise(self) ==
    [self EXCEPT !.init_func = Function_finalise(self.init_func),
                 !.perf_func = Function_finalise(self.perf_func)]

Instrument_create_event_instance(self, duration_samples, init_args, perf_args) ==
    [instrument_name |-> self.instrument_name,
     variables |-> [i \in 1..Len(self.variables) |-> Value_default],
     init_func |-> Function_create_event_instance(self.init_func),
     perf_func |-> Function_create_event_instance(self.perf_func),
     init_args |-> init_args,
     perf_args |-> perf_args,
     duration_samples |-> duration_samples,
     sample_counter |-> 0]

\* The instruments of the model, as Compiler::instrument leaves them in the VM
\* for the instruments block
\*   instruments {
\*     sil { perf() { } }
\*     osc { perf(shape: Int) { output(Oscil(1.0, 440.0, shape)); } }
\*     mix { a: Audio;
\*           init() { a = Noise(1.0); output(a); }
\*           perf() { output(Noise(1.0) + Oscil(1.0, 440.0, 2)); } }
\*   }
Instrument_sil ==
    [instrument_name |-> "sil", variables |-> <<>>,
     init_func |-> Function(<<>>, <<>>, <<>>, <<>>),
     perf_func |-> Function(<<>>, <<>>, <<>>, <<>>)]

Instrument_osc ==
    [instrument_name |-> "osc", variables |-> <<>>,
     init_func |-> Function(<<>>, <<>>, <<>>, <<>>),
     perf_func |-> Function(
        << Op("LoadConstant", Value_float(1)), Op("LoadConstant", Value_float(440)),
           Op("LoadArg", 0), Op("CallComponent", 0), Op("Output", 0) >>,
        << InstrumentVariable("shape", "Int") >>, <<>>, << Oscil_new >>)]

Instrument_mix ==
    [instrument_name |-> "mix",
     variables |-> << InstrumentVariable("a", "Audio") >>,
     init_func |-> Function(
        << Op("LoadConstant", Value_float(1)), Op("CallComponent", 0),
           Op("AssignMember", 0), Op("LoadMember", 0), Op("Output", 0) >>,
        <<>>, <<>>, << Noise_new >>),
     perf_func |-> Function(
        << Op("LoadConstant", Value_float(1)), Op("CallComponent", 0),
           Op("LoadConstant", Value_float(1)), Op("LoadConstant", Value_float(440)),
           Op("LoadConstant", Value_int(2)), Op("CallComponent", 1),
           Op("Add", 0), Op("Output", 0) >>,
        <<>>, <<>>, << Noise_new, Oscil_new >>)]

InstrumentsSource == << Instrument_sil, Instrument_osc, Instrument_mix >>

\* The score events a score block may hold, as Compiler::score_event hands
\* them to add_score_event (times in 1/TimeDen s).
ScoreLine(instrument_name, start_time, duration, perf_args) ==
    [instrument_name |-> instrument_name, start_time |-> start_time,
     duration |-> duration, init_args |-> <<>>, perf_args |-> perf_args]

ScoreLines ==
    { ScoreLine("osc", 0, 12, << Value_int(0) >>),
      ScoreLine("osc", 3, 6, << Value_int(1) >>),
      ScoreLine("osc", 10, 0, << Value_int(3) >>),
      ScoreLine("mix", 0, 0, <<>>),
      ScoreLine("mix", 10, 5, <<>>),
      ScoreLine("sil", 1, 12, <<>>) }

\* ---------------------------------------------------------------- compiler
\* Option<usize>: Some(i) is << i >>, None is << >>.
Some(x) == << x >>
is_some(o) == o # << >>
unwrap(o) == o[1]

VariableTypes == {"Audio", "Float", "Int", "String"}

can_factor_with(self, other) ==
    CASE self = "Audio" -> other # "String"
      [] self = "Float" -> other = "Float" \/ other = "Int"
      [] self = "Int" -> other = "Float" \/ other = "Int"
      [] self = "String" -> FALSE

can_sum_with(self, other) ==
    CASE self = "Audio" -> other # "String"
      [] self = "Float" -> other = "Float" \/ other = "Int"
      [] self = "Int" -> other = "Float" \/ other = "Int"
      [] self = "String" -> other = "String"

Instrument_new(instrument_name) ==
    [instrument_name |-> instrument_name, variables |-> <<>>,
     init_func |-> Function(<<>>, <<>>, <<>>, <<>>),
     perf_func |-> Function(<<>>, <<>>, <<>>, <<>>)]

\* iter().position(|v| &v.variable_name == variable_name)
position(variables, variable_name) ==
    LET hits == { i \in 1..Len(variables) : variables[i].variable_name = variable_name }
    IN IF hits = {} THEN << >>
       ELSE Some((CHOOSE i \in hits : \A j \in hits : i <= j) - 1)

\* The function a context compiles: init_func in InitFunc, perf_func in
\* PerfFunc.
func_of(self, context) ==
    IF context = "InitFunc" THEN self.init_func ELSE self.perf_func

get_variable(self, variable_name) == position(self.variables, variable_name)
member_type(self, index) == self.variables[index + 1].variable_type

\* get_local_init_variable and get_local_perf_variable.
get_local_variable(self, context, variable_name) ==
    position(func_of(self, context).locals, variable_name)

\* init_local_type and perf_local_type.
local_type(self, context, index) ==
    func_of(self, context).locals[index + 1].variable_type

\* get_init_arg and get_perf_arg.
get_arg(self, context, arg_name) == position(func_of(self, context).args, arg_name)

\* init_arg_type and perf_arg_type.
arg_type(self, context, index) == func_of(self, context).args[index + 1].variable_type

\* num_init_args and num_perf_args.
num_args(self, context) == Len(func_of(self, context).args)

add_variable(self, variable_name, variable_type) ==
    [self EXCEPT !.variables = Append(@, InstrumentVariable(variable_name, variable_type))]

\* add_init_local and add_perf_local: the instrument is changed when ok.
add_local(self, context, variable_name, variable_type) ==
    IF is_some(get_arg(self, context, variable_name))
       \/ is_some(get_variable(self, variable_name))
       \/ is_some(get_local_variable(self, context, variable_name))
    THEN [ok |-> FALSE, instrument |-> self]
    ELSE [ok |-> TRUE,
          instrument |->
            IF context = "InitFunc"
            THEN [self EXCEPT !.init_func.locals =
                    Append(@, InstrumentVariable(variable_name, variable_type))]
            ELSE [self EXCEPT !.perf_func.locals =
                    Append(@, InstrumentVariable(variable_name, variable_type))]]

\* add_init_arg and add_perf_arg.
add_arg(self, context, variable_name, variable_type) ==
    IF is_some(get_arg(self, context, variable_name))
       \/ is_some(get_variable(self, variable_name))
    THEN [ok |-> FALSE, instrument |-> self]
    ELSE [ok |-> TRUE,
          instrument |->
            IF context = "InitFunc"
            THEN [self EXCEPT !.init_func.args =
                    Append(@, InstrumentVariable(variable_name, variable_type))]
            ELSE [self EXCEPT !.perf_func.args =
                    Append(@, InstrumentVariable(variable_name, variable_type))]]

\* add_init_component and add_perf_component: the index of the new slot.
add_component(self, context, component) ==
    [index |-> Len(func_of(self, context).components),
     instrument |->
        IF context = "InitFunc"
        THEN [self EXCEPT !.init_func.components = Append(@, component)]
        ELSE [self EXCEPT !.perf_func.components = Append(@, component)]]

\* emit_init_op and emit_perf_op.
emit_instrument_op(self, context, op) ==
    IF context = "InitFunc"
    THEN [self EXCEPT !.init_func.ops = Append(@, op)]
    ELSE [self EXCEPT !.perf_func.ops = Append(@, op)]

\* The components the model has a process for, of the map COMPONENTS.
COMPONENTS ==
    [Noise |-> [factory |-> Noise_new, input_types |-> << "Float" >>,
                output_type |-> "Audio"],
     Oscil |-> [factory |-> Oscil_new, input_types |-> << "Float", "Float", "Int" >>,
                output_type |-> "Audio"]]

has_component(name) == name \in DOMAIN COMPONENTS
component_info(name) == COMPONENTS[name]

\* The identifiers of the sources that begin with a capital letter.
Capitalised == {"Noise", "Oscil", "Gain"}
is_uppercase(text) == text \in Capitalised

\* struct Compiler with the instrument Compiler::instrument is building (the
\* VM it fills is the VM of the model): had_error; the source left to scan,
\* `items` the members and functions of the instrument and `score` the
\* events of the score block, and `scanner`, the block the scanner is in;
\* and `checks`, the operand types of every binary operator term and factor
\* have looked at, with the verdict and, when accepted, the type of the
\* expression and the place of the op.
Compiler_new(source) ==
    [instrument |-> Instrument_new("i"), had_error |-> FALSE, checks |-> <<>>,
     scanner |-> "instrument", source |-> source]

\* error_at_current, error_at_previous and error.
error(self) == [self EXCEPT !.had_error = TRUE]

emit_op(self, context, op) ==
    [self EXCEPT !.instrument = emit_instrument_op(@, context, op)]

Result(self, type) == [self |-> self, type |-> type]

checked(self, context, op, lhs, rhs, accepted) ==
    [self EXCEPT !.checks = Append(@,
        [context |-> context, op |-> op, lhs |-> lhs, rhs |-> rhs,
         accepted |-> accepted,
         index |-> Len(func_of(self.instrument, context).ops),
         type |-> IF accepted THEN lhs ELSE None])]

\* ---- sources
\* An expression is a term: a factor and (operator, factor) pairs; a factor
\* is a primary and (operator, primary) pairs; a primary is a literal, an
\* identifier, a component with its inputs, or an expression in parentheses.
Primary_lit(token, text) == [token |-> token, text |-> text]
Primary_ident(text) == [token |-> "Identifier", text |-> text, args |-> <<>>]
Primary_call(text, args) == [token |-> "Identifier", text |-> text, args |-> args]
Primary_paren(e) == [token |-> "ParenOpen", expression |-> e]
Factor(first, rest) == [first |-> first, rest |-> rest]
Term(first, rest) == [first |-> first, rest |-> rest]
Pair(token, rhs) == [token |-> token, rhs |-> rhs]

RECURSIVE term(_, _, _)
RECURSIVE term_loop(_, _, _, _, _)
RECURSIVE factor(_, _, _)
RECURSIVE factor_loop(_, _, _, _, _)
RECURSIVE primary(_, _, _)
RECURSIVE identifier(_, _, _)
RECURSIVE identifier_inputs(_, _, _, _, _)

expression(self, context, e) == term(self, context, e)

\* The loop of term after the first factor, at the i-th (operator, factor).
term_loop(self, context, expression_type, rest, i) ==
    IF i > Len(rest) THEN Result(self, expression_type)
    ELSE LET op == IF rest[i].token = "Minus" THEN "Subtract" ELSE "Add"
         IN Let(factor(self, context, rest[i].rhs),
                LAMBDA r :
                    IF r.type = None
                    THEN term_loop(r.self, context, expression_type, rest, i + 1)
                    ELSE IF can_sum_with(expression_type, r.type)
                    THEN term_loop(
                            checked(emit_op(r.self, context, Op(op, 0)), context, op,
                                    expression_type, r.type, TRUE),
                            context, expression_type, rest, i + 1)
                    ELSE Result(error(checked(r.self, context, op, expression_type,
                                              r.type, FALSE)), None))

term(self, context, e) ==
    Let(factor(self, context, e.first),
        LAMBDA f : IF f.type = None THEN Result(f.self, None)
                   ELSE term_loop(f.self, context, f.type, e.rest, 1))

\* The loop of factor after the first primary.
factor_loop(self, context, expression_type, rest, i) ==
    IF i > Len(rest) THEN Result(self, expression_type)
    ELSE LET op == IF rest[i].token = "Slash" THEN "Divide" ELSE "Multiply"
         IN Let(primary(self, context, rest[i].rhs),
                LAMBDA r :
                    IF r.type = None
                    THEN factor_loop(r.self, context, expression_type, rest, i + 1)
                    ELSE IF can_factor_with(expression_type, r.type)
                    THEN factor_loop(
                            checked(emit_op(r.self, context, Op(op, 0)), context, op,
                                    expression_type, r.type, TRUE),
                            context, expression_type, rest, i + 1)
                    ELSE Result(error(checked(r.self, context, op, expression_type,
                                              r.type, FALSE)), None))

factor(self, context, e) ==
    Let(primary(self, context, e.first),
        LAMBDA f : IF f.type = None THEN Result(f.self, None)
                   ELSE factor_loop(f.self, context, f.type, e.rest, 1))

\* parse::<i64>() and parse::<f32>() of the text of a number token: the
\* texts of the sources are one digit, with ".0" after it for a Float.
parse_number(text) ==
    CASE text[1] = "1" -> 1 [] text[1] = "2" -> 2 [] text[1] = "3" -> 3

\* parse_string of a text without escapes: the text between the quotes.
parse_string(text) == SubSeq(text, 2, Len(text) - 1)

primary(self, context, p) ==
    CASE p.token = "Integer" ->
            Result(emit_op(self, context,
                           Op("LoadConstant", Value_int(parse_number(p.text)))), "Int")
      [] p.token = "Float" ->
            Result(emit_op(self, context,
                           Op("LoadConstant", Value_float(parse_number(p.text)))),
                   "Float")
      [] p.token = "String" ->
            Result(emit_op(self, context,
                           Op("LoadConstant", Value_string(parse_string(p.text)))),
                   "String")
      [] p.token = "Identifier" -> identifier(self, context, p)
      [] p.token = "ParenOpen" -> expression(self, context, p.expression)
      [] OTHER -> Result(error(self), None)

\* The loop of identifier over the inputs of a component.
identifier_inputs(self, context, info, args, arg_count) ==
    IF arg_count = Len(args)
    THEN IF arg_count # Len(info.input_types) THEN Result(error(self), None)
         ELSE LET added == add_component(self.instrument, context, info.factory)
              IN Result(emit_op([self EXCEPT !.instrument = added.instrument], context,
                                Op("CallComponent", added.index)),
                        info.output_type)
    ELSE IF arg_count = Len(info.input_types) THEN Result(error(self), None)
    ELSE Let(expression(self, context, args[arg_count + 1]),
             LAMBDA r :
                IF r.type = None THEN Result(r.self, None)
                ELSE IF r.type # info.input_types[arg_count + 1]
                THEN Result(error(r.self), None)
                ELSE identifier_inputs(r.self, context, info, args, arg_count + 1))

identifier(self, context, p) ==
    LET ident_text == p.text
        instrument == self.instrument
    IN IF is_uppercase(ident_text)
       THEN IF ~has_component(ident_text) THEN Result(error(self), None)
            ELSE identifier_inputs(self, context, component_info(ident_text), p.args, 0)
       ELSE IF is_some(get_arg(instrument, context, ident_text))
       THEN LET index == unwrap(get_arg(instrument, context, ident_text))
            IN Result(emit_op(self, context, Op("LoadArg", index)),
                      arg_type(instrument, context, index))
       ELSE IF is_some(get_local_variable(instrument, context, ident_text))
       THEN LET index == unwrap(get_local_variable(instrument, context, ident_text))
            IN Result(emit_op(self, context, Op("LoadLocal", index)),
                      local_type(instrument, context, index))
       ELSE IF is_some(get_variable(instrument, ident_text))
       THEN LET index == unwrap(get_variable(instrument, ident_text))
            IN Result(emit_op(self, context, Op("LoadMember", index)),
                      member_type(instrument, index))
       ELSE Result(error(self), None)

\* A statement of the source: print(e), println(e), output(e), name = e, with
\* `expression` << e >>, or << >> for print() and println().
Statement(token, text, e) ==
    [token |-> token, text |-> text, expression |-> e]

\* local name: type = e;
Local(text, type, e) ==
    [token |-> "Local", text |-> text, type |-> type, expression |-> << e >>]

assignment_statement(self, context, s) ==
    LET variable_name == s.text
        instrument == self.instrument
        assign(variable_type, op) ==
            Let(expression(self, context, s.expression[1]),
                LAMBDA r :
                    IF r.type = None THEN r.self
                    ELSE IF variable_type # r.type THEN error(r.self)
                    ELSE emit_op(r.self, context, op))
    IN IF is_some(get_variable(instrument, variable_name))
       THEN LET index == unwrap(get_variable(instrument, variable_name))
            IN assign(member_type(instrument, index), Op("AssignMember", index))
       ELSE IF is_some(get_local_variable(instrument, context, variable_name))
       THEN LET index == unwrap(get_local_variable(instrument, context, variable_name))
            IN assign(local_type(instrument, context, index), Op("AssignLocal", index))
       ELSE error(self)

\* statement whose print() emits Print, the op of print(e).
statement_print_pops(self, context, s) ==
    CASE s.token \in {"Print", "PrintLn"} ->
            IF s.expression = << >>
            THEN emit_op(self, context, Op(s.token, 0))
            ELSE Let(expression(self, context, s.expression[1]),
                     LAMBDA r : emit_op(r.self, context, Op(s.token, 0)))
      [] s.token = "Output" ->
            Let(expression(self, context, s.expression[1]),
                LAMBDA r :
                    IF r.type = None THEN r.self
                    ELSE IF r.type # "Audio" THEN error(r.self)
                    ELSE emit_op(r.self, context, Op("Output", 0)))
      [] s.token = "Identifier" -> assignment_statement(self, context, s)
      [] OTHER -> error(self)

statement(self, context, s) ==
    CASE s.token \in {"Print", "PrintLn"} ->
            IF s.expression = << >>
            THEN emit_op(self, context,
                         Op(IF s.token = "Print" THEN "PrintEmpty" ELSE "PrintLnEmpty", 0))
            ELSE Let(expression(self, context, s.expression[1]),
                     LAMBDA r : emit_op(r.self, context, Op(s.token, 0)))
      [] s.token = "Output" ->
            Let(expression(self, context, s.expression[1]),
                LAMBDA r :
                    IF r.type = None THEN r.self
                    ELSE IF r.type # "Audio" THEN error(r.self)
                    ELSE emit_op(r.self, context, Op("Output", 0)))
      [] s.token = "Identifier" -> assignment_statement(self, context, s)
      [] OTHER -> error(self)

local_declaration(self, context, d) ==
    IF is_uppercase(d.text) THEN error(self)
    ELSE LET added == add_local(self.instrument, context, d.text, d.type)
         IN IF ~added.ok THEN error(self)
            ELSE Let(expression([self EXCEPT !.instrument = added.instrument], context,
                                d.expression[1]),
                     LAMBDA r :
                        IF r.type = None THEN r.self
                        ELSE IF r.type # d.type THEN error(r.self)
                        ELSE emit_op(r.self, context, Op("DeclareLocal", 0)))

\* A function of the source: init or perf, its parameters and its body.
FunctionSource(context, args, body) ==
    [token |-> context, args |-> args, body |-> body]

\* The loop of function over the parameters, at the i-th.
RECURSIVE function_args(_, _, _, _)
function_args(self, context, args, i) ==
    IF i > Len(args) THEN self
    ELSE IF is_uppercase(args[i].variable_name) THEN error(self)
    ELSE IF args[i].variable_type = "Audio" THEN error(self)
    ELSE LET added == add_arg(self.instrument, context, args[i].variable_name,
                              args[i].variable_type)
         IN IF ~added.ok THEN error(self)
            ELSE function_args([self EXCEPT !.instrument = added.instrument], context,
                               args, i + 1)

\* The loop of function over the body, at the i-th declaration or statement.
RECURSIVE function_body(_, _, _, _)
function_body(self, context, body, i) ==
    IF i > Len(body) THEN self
    ELSE Let(IF body[i].token = "Local" THEN local_declaration(self, context, body[i])
             ELSE statement(self, context, body[i]),
             LAMBDA r : IF r.had_error THEN r
                        ELSE function_body(r, context, body, i + 1))

function(self, f) ==
    Let(function_args(self, f.token, f.args, 1),
        LAMBDA r : IF r.had_error THEN r ELSE function_body(r, f.token, f.body, 1))

member_variable(self, m) ==
    IF is_uppercase(m.variable_name) THEN error(self)
    ELSE IF is_some(get_variable(self.instrument, m.variable_name)) THEN error(self)
    ELSE [self EXCEPT !.instrument = add_variable(@, m.variable_name, m.variable_type)]

\* main at `at` ("args", "read", "compile", "run", "exit") with the arguments
\* args: the output target they name, the program as read and the blocks of
\* it the compiler has not reached, whether the samples were written, and
\* the outcome: "Ok" and "Err" of main's Result, or "panic".
Process(args) ==
    [at |-> "args", args |-> args, output_target |-> "None", read |-> FALSE,
     program |-> <<>>, code |-> <<>>, written |-> FALSE, status |-> "none"]

\* No function of the instrument is running.
NoInvocation ==
    [func |-> "none", ip |-> 0, instance |-> <<>>, st |-> <<>>, last |-> <<>>,
     stream |-> <<>>, block |-> 0]


\* ---------------------------------------------------------------------- VM
VARIABLES
    \* struct VM
    instruments,            \* Vec<Instrument>
    score_events,           \* Vec<ScoreEvent>, in source order
    sorted_score_events,    \* HashMap<usize, Vec<ScoreEvent>>
    active_score_events,    \* Vec<InstrumentEventInstance>
    sample_counter,         \* samples emitted so far
    audio_config,           \* Option<SupportedStreamConfig>
    perf_count,             \* calls of get_next_buffer so far
    \* the driver: compile_and_run, VM::run, write_to_file, run_no_output, Stream
    pc,                     \* where the driver stands
    output_target,          \* OutputTarget, once run is called
    len,                    \* `len` of write_to_file / run_no_output
    driver_counter,         \* their local `sample_counter`
    samples,                \* the interleaved samples handed to the WAV writer
    \* what an observer of the run sees
    buffer,                 \* the buffer the last get_next_buffer returned
    outputs,                \* the Audio values Output mixed in that call
    calls,                  \* every create / init / perf / retire, in order
    blocks,                 \* first sample and size of every block so far
    instance_count,         \* event instances created so far
    \* one invocation of run_ops, with its Audio values as the Rc pointers
    \* they are
    rc_heap,                \* the AudioBuffers allocated by Rc::new, by address
    rc_stack,               \* `stack`
    rc_locals,              \* `locals`
    rc_variables,           \* `self.variables`
    rc_last,                \* the last op run, its operands, the heap before it
    \* the compiler at work on a source, and the instrument it compiled at run
    compiler,               \* struct Compiler
    invocation,             \* the run_ops in progress: function, place, locals
    \* main: the arguments, the source read and the outcome of the process
    proc                    \* where main stands, and what it holds

rc_vars == << rc_heap, rc_stack, rc_locals, rc_variables, rc_last >>
compiler_vars == << compiler, invocation, proc >>

vars == << instruments, score_events, sorted_score_events, active_score_events,
           sample_counter, audio_config, perf_count, pc, output_target, len,
           driver_counter, samples, buffer, outputs, calls, blocks,
           instance_count, rc_vars, compiler_vars >>

has_instrument(instrument_name) ==
    \E i \in 1..Len(instruments) : instruments[i].instrument_name = instrument_name

\* `position(..).unwrap()`: the 0-based index of the first instrument so named.
instrument_position(instrument_name) ==
    (CHOOSE i \in 1..Len(instruments) :
        /\ instruments[i].instrument_name = instrument_name
        /\ \A j \in 1..(i - 1) : instruments[j].instrument_name # instrument_name) - 1

\* The ScoreEvent that add_score_event pushes; `index` is the event's place in
\* the source file, kept to tell the copies of one event from another's.
new_score_event(line) ==
    [index |-> Len(score_events) + 1,
     instrument_index |-> instrument_position(line.instrument_name),
     start_time |-> line.start_time,
     duration |-> line.duration,
     init_args |-> line.init_args,
     perf_args |-> line.perf_args,
     final_init_args |-> None,
     final_perf_args |-> None]

\* `x as usize` of an f32: the integer part, saturating at 0.
as_usize(x) == IF x < 0 THEN 0 ELSE x

\* `(t * sr) as usize` for a time t in 1/TimeDen s.
to_samples(t, sr) == as_usize((t * sr) \div TimeDen)

\* finalise_event with the event put at the front of its bucket.
finalise_event_push_front(st, i, sr) ==
    LET event == [st.events[i + 1] EXCEPT
                    !.final_init_args = st.events[i + 1].init_args,
                    !.final_perf_args = st.events[i + 1].perf_args]
        sample == to_samples(event.start_time, sr)
        end_time == event.start_time + event.duration
        sorted == st.sorted
    IN [events |-> [st.events EXCEPT ![i + 1] = event],
        last_end_sample |-> IF end_time > st.last_end_sample THEN end_time
                            ELSE st.last_end_sample,
        sorted |-> IF sample \in DOMAIN sorted
                   THEN [sorted EXCEPT ![sample] = << event >> \o @]
                   ELSE [k \in DOMAIN sorted \cup {sample} |->
                            IF k = sample THEN << event >> ELSE sorted[k]]]

\* finalise_event that inserts the event's bucket whether or not the map
\* holds one for its sample.
finalise_event_insert_always(st, i, sr) ==
    LET event == [st.events[i + 1] EXCEPT
                    !.final_init_args = st.events[i + 1].init_args,
                    !.final_perf_args = st.events[i + 1].perf_args]
        sample == to_samples(event.start_time, sr)
        end_time == event.start_time + event.duration
        sorted == st.sorted
    IN [events |-> [st.events EXCEPT ![i + 1] = event],
        last_end_sample |-> IF end_time > st.last_end_sample THEN end_time
                            ELSE st.last_end_sample,
        sorted |-> [k \in DOMAIN sorted \cup {sample} |->
                        IF k = sample THEN << event >> ELSE sorted[k]]]

\* One pass of the loop of finalise over score_events; st holds
\* sorted_score_events, last_end_sample and the events as the loop leaves them.
finalise_event(st, i, sr) ==
    LET event == [st.events[i + 1] EXCEPT
                    !.final_init_args = st.events[i + 1].init_args,
                    !.final_perf_args = st.events[i + 1].perf_args]
        sample == to_samples(event.start_time, sr)
        end_time == event.start_time + event.duration
        sorted == st.sorted
    IN [events |-> [st.events EXCEPT ![i + 1] = event],
        last_end_sample |-> IF end_time > st.last_end_sample THEN end_time
                            ELSE st.last_end_sample,
        sorted |-> IF sample \in DOMAIN sorted
                   THEN [sorted EXCEPT ![sample] = Append(@, event)]
                   ELSE [k \in DOMAIN sorted \cup {sample} |->
                            IF k = sample THEN << event >> ELSE sorted[k]]]

\* VM::finalise: the instruments, the events and the map it leaves, and the
\* length it returns.
finalise(sample_rate) ==
    LET body(st, i) == finalise_event(st, i, sample_rate)
    IN Let(ForRange(body, 0, Len(score_events),
                    [events |-> score_events, last_end_sample |-> 0,
                     sorted |-> sorted_score_events]),
           LAMBDA r :
               [instruments |-> [i \in 1..Len(instruments) |->
                                    Instrument_finalise(instruments[i])],
                score_events |-> r.events,
                sorted_score_events |-> r.sorted,
                last_end_sample |-> r.last_end_sample])

\* A record of the log `calls`: what was done, to which instance (id) of which
\* score event (its index), in which call of get_next_buffer, and the VM's
\* sample_counter at that moment.
Call(op, instance, block, at) ==
    [op |-> op, id |-> instance.id, event |-> instance.event, block |-> block,
     at |-> at]

\* fire_event with the instance inserted at the front of the active list.
fire_event_insert_front(g, event, stream_info) ==
    IF g.env.panicked THEN g
    ELSE LET created ==
                 [id |-> g.count + 1, event |-> event.index] @@
                 Instrument_create_event_instance(
                     instruments[event.instrument_index + 1],
                     to_samples(event.duration, stream_info.sample_rate),
                     event.final_init_args, event.final_perf_args)
         IN Let(run_init(created, stream_info, g.env),
                LAMBDA r :
                    [g EXCEPT !.env = r.env,
                              !.count = g.count + 1,
                              !.calls = g.calls \o
                                  << Call("create", created, g.perf_count + 1,
                                          g.sample_counter),
                                     Call("init", created, g.perf_count + 1,
                                          g.sample_counter) >>,
                              !.active = IF r.env.panicked THEN g.active
                                         ELSE << r.instance >> \o g.active])

\* fire_event with the call of run_init left out: the instance is created
\* and pushed as it is.
fire_event_without_init(g, event, stream_info) ==
    IF g.env.panicked THEN g
    ELSE LET created ==
                 [id |-> g.count + 1, event |-> event.index] @@
                 Instrument_create_event_instance(
                     instruments[event.instrument_index + 1],
                     to_samples(event.duration, stream_info.sample_rate),
                     event.final_init_args, event.final_perf_args)
         IN [g EXCEPT !.count = g.count + 1,
                      !.calls = Append(g.calls, Call("create", created, g.perf_count + 1,
                                                     g.sample_counter)),
                      !.active = Append(g.active, created)]

\* The body of `for event in events.iter()` in get_next_buffer: create the
\* instance, run its init, push it.  g holds what get_next_buffer writes:
\* sample_counter, active (active_score_events), perf_count, env
\* (buffer_to_fill and the rest of run_ops' environment), calls and count
\* (instance_count).
fire_event(g, event, stream_info) ==
    IF g.env.panicked THEN g
    ELSE LET created ==
                 [id |-> g.count + 1, event |-> event.index] @@
                 Instrument_create_event_instance(
                     instruments[event.instrument_index + 1],
                     to_samples(event.duration, stream_info.sample_rate),
                     event.final_init_args, event.final_perf_args)
         IN Let(run_init(created, stream_info, g.env),
                LAMBDA r :
                    [g EXCEPT !.env = r.env,
                              !.count = g.count + 1,
                              !.calls = g.calls \o
                                  << Call("create", created, g.perf_count + 1,
                                          g.sample_counter),
                                     Call("init", created, g.perf_count + 1,
                                          g.sample_counter) >>,
                              !.active = IF r.env.panicked THEN g.active
                                         ELSE Append(g.active, r.instance)])

\* fire_sample with the counter advanced before the map is looked up.
fire_sample_after_increment(g, stream_info) ==
    LET at == [g EXCEPT !.sample_counter = g.sample_counter + 1]
        body(h, j) == fire_event(h, sorted_score_events[at.sample_counter][j + 1],
                                 stream_info)
    IN IF at.sample_counter \in DOMAIN sorted_score_events
       THEN ForRange(body, 0, Len(sorted_score_events[at.sample_counter]), at)
       ELSE at

\* fire_sample that walks the bucket in an order that follows the state of
\* the process (here the generator's): backwards in one of them.
fire_sample_in_hash_order(g, stream_info) ==
    LET events == sorted_score_events[g.sample_counter]
        body(h, j) == fire_event(h, IF g.env.rng.seed = 0 THEN events[j + 1]
                                    ELSE events[Len(events) - j],
                                 stream_info)
        fired == IF g.sample_counter \in DOMAIN sorted_score_events
                 THEN ForRange(body, 0, Len(events), g)
                 ELSE g
    IN [fired EXCEPT !.sample_counter = g.sample_counter + 1]

\* One pass of `for _ in 0..buffer_size`.
fire_sample(g, stream_info) ==
    LET body(h, j) == fire_event(h, sorted_score_events[g.sample_counter][j + 1],
                                 stream_info)
        fired == IF g.sample_counter \in DOMAIN sorted_score_events
                 THEN ForRange(body, 0, Len(sorted_score_events[g.sample_counter]), g)
                 ELSE g
    IN [fired EXCEPT !.sample_counter = g.sample_counter + 1]

remove(seq, i) == SubSeq(seq, 1, i) \o SubSeq(seq, i + 2, Len(seq))

\* The loop of the perf pass with the component slots of a function kept
\* once for the instrument: an instance runs on the slots as the instance
\* before it in the list left them, when both play the same instrument.
RECURSIVE perf_loop_sharing_slots(_, _, _)
perf_loop_sharing_slots(g, i, stream_info) ==
    IF g.env.panicked \/ ~(i < Len(g.active)) THEN g
    ELSE LET own == g.active[i + 1]
             instance ==
                IF i > 0 /\ g.active[i].instrument_name = own.instrument_name
                THEN [own EXCEPT !.perf_func.components =
                                        g.active[i].perf_func.components]
                ELSE own
             perf == Call("perf", instance, g.perf_count + 1, g.sample_counter)
         IN Let(run_perf(instance, stream_info, g.env),
                LAMBDA r :
                    IF r.env.panicked
                    THEN [g EXCEPT !.env = r.env, !.calls = Append(g.calls, perf)]
                    ELSE IF r.over
                    THEN perf_loop_sharing_slots(
                                   [g EXCEPT !.env = r.env,
                                             !.calls = g.calls \o
                                                << perf,
                                                   Call("retire", instance, g.perf_count + 1,
                                                        g.sample_counter) >>,
                                             !.active = remove(g.active, i)],
                                   i, stream_info)
                    ELSE perf_loop_sharing_slots(
                                   [g EXCEPT !.env = r.env,
                                             !.calls = Append(g.calls, perf),
                                             !.active[i + 1] = r.instance],
                                   i + 1, stream_info))

\* The loop of the perf pass that steps to the next index also after it
\* removed the instance at the index.
RECURSIVE perf_loop_stepping_past_removed(_, _, _)
perf_loop_stepping_past_removed(g, i, stream_info) ==
    IF g.env.panicked \/ ~(i < Len(g.active)) THEN g
    ELSE LET instance == g.active[i + 1]
             perf == Call("perf", instance, g.perf_count + 1, g.sample_counter)
         IN Let(run_perf(instance, stream_info, g.env),
                LAMBDA r :
                    IF r.env.panicked
                    THEN [g EXCEPT !.env = r.env, !.calls = Append(g.calls, perf)]
                    ELSE IF r.over
                    THEN perf_loop_stepping_past_removed(
                                   [g EXCEPT !.env = r.env,
                                             !.calls = g.calls \o
                                                << perf,
                                                   Call("retire", instance, g.perf_count + 1,
                                                        g.sample_counter) >>,
                                             !.active = remove(g.active, i)],
                                   i + 1, stream_info)
                    ELSE perf_loop_stepping_past_removed(
                                   [g EXCEPT !.env = r.env,
                                             !.calls = Append(g.calls, perf),
                                             !.active[i + 1] = r.instance],
                                   i + 1, stream_info))

\* The loop `while i < self.active_score_events.len()` from index i on.
RECURSIVE perf_loop(_, _, _)
perf_loop(g, i, stream_info) ==
    IF g.env.panicked \/ ~(i < Len(g.active)) THEN g
    ELSE LET instance == g.active[i + 1]
             perf == Call("perf", instance, g.perf_count + 1, g.sample_counter)
         IN Let(run_perf(instance, stream_info, g.env),
                LAMBDA r :
                    IF r.env.panicked
                    THEN [g EXCEPT !.env = r.env, !.calls = Append(g.calls, perf)]
                    ELSE IF r.over
                    THEN perf_loop([g EXCEPT !.env = r.env,
                                             !.calls = g.calls \o
                                                << perf,
                                                   Call("retire", instance, g.perf_count + 1,
                                                        g.sample_counter) >>,
                                             !.active = remove(g.active, i)],
                                   i, stream_info)
                    ELSE perf_loop([g EXCEPT !.env = r.env,
                                             !.calls = Append(g.calls, perf),
                                             !.active[i + 1] = r.instance],
                                   i + 1, stream_info))

\* VM::get_next_buffer on the VM `self` (the fields the call writes, named as
\* in g); seed is the state of the thread's random generator.
get_next_buffer(self, channels, buffer_size, seed) ==
    LET stream_info == StreamInfo(audio_config.sample_rate, buffer_size, channels)
        body(g, k) == fire_sample(g, stream_info)
    IN Let(ForRange(body, 0, buffer_size,
                    [sample_counter |-> self.sample_counter,
                     active |-> self.active,
                     perf_count |-> self.perf_count,
                     env |-> [buffer |-> AudioBuffer_new(channels, buffer_size),
                              rng |-> [seed |-> seed, draws |-> 0],
                              outputs |-> <<>>,
                              panicked |-> FALSE],
                     calls |-> self.calls,
                     count |-> self.count]),
           LAMBDA fired :
               Let(perf_loop(fired, 0, stream_info),
                   LAMBDA g : [g EXCEPT !.perf_count = g.perf_count + 1]))

\* The VM as the variables hold it.
VM ==
    [sample_counter |-> sample_counter, active |-> active_score_events,
     perf_count |-> perf_count, calls |-> calls, count |-> instance_count]

\* What a call of get_next_buffer leaves in the VM; g is its result.
VMAfterBuffer(g) ==
    /\ sample_counter' = g.sample_counter
    /\ active_score_events' = g.active
    /\ perf_count' = g.perf_count
    /\ buffer' = g.env.buffer
    /\ outputs' = g.env.outputs
    /\ calls' = g.calls
    /\ blocks' = Append(blocks, [start |-> sample_counter,
                                 size |-> g.env.buffer.buffer_size])
    /\ instance_count' = g.count
    /\ UNCHANGED << instruments, score_events, sorted_score_events, audio_config,
                    rc_vars, compiler_vars >>

\* ------------------------------------------------------------------ driver
OutputTargets == {"Dac", "File", "None"}

SupportedStreamConfig(channels, sample_rate) ==
    [channels |-> channels, sample_rate |-> sample_rate]

InitVM ==
    /\ instruments = <<>>
    /\ score_events = <<>>
    /\ sorted_score_events = [k \in {} |-> <<>>]
    /\ active_score_events = <<>>
    /\ sample_counter = 0
    /\ audio_config = None
    /\ perf_count = 0
    /\ pc = "compile"
    /\ output_target = "None"
    /\ len = 0
    /\ driver_counter = 0
    /\ samples = <<>>
    /\ buffer = AudioBuffer_new(0, 0)
    /\ outputs = <<>>
    /\ calls = <<>>
    /\ blocks = <<>>
    /\ instance_count = 0
    /\ rc_heap = <<>>
    /\ rc_stack = <<>>
    /\ rc_locals = <<>>
    /\ rc_variables = << Value_default >>
    /\ rc_last = [op |-> "none"]

Init ==
    /\ InitVM
    /\ compiler = Compiler_new([items |-> <<>>, score |-> <<>>])
    /\ invocation = NoInvocation
    /\ proc = Process(<<>>)

\* Compiler::instruments_block: every instrument of the block is compiled and
\* handed to VM::add_instrument, which pushes it.
InstrumentsBlock ==
    /\ pc = "compile"
    /\ instruments = <<>>
    /\ instruments' = instruments \o InstrumentsSource
    /\ UNCHANGED << score_events, sorted_score_events, active_score_events,
                    sample_counter, audio_config, perf_count, pc, output_target,
                    len, driver_counter, samples, buffer, outputs, calls,
                    blocks, instance_count, rc_vars, compiler_vars >>

\* Compiler::score_event for a well-formed event of a known instrument, which
\* ends in VM::add_score_event.
AddScoreEvent(line) ==
    /\ pc = "compile"
    /\ has_instrument(line.instrument_name)
    /\ Len(score_events) < MaxEvents
    /\ score_events' = Append(score_events, new_score_event(line))
    /\ UNCHANGED << instruments, sorted_score_events, active_score_events,
                    sample_counter, audio_config, perf_count, pc, output_target,
                    len, driver_counter, samples, buffer, outputs, calls,
                    blocks, instance_count, rc_vars, compiler_vars >>

\* compile_and_run after a compilation without error: VM::run up to the first
\* block.  write_to_file and run_no_output set the fixed configuration and
\* finalise; in device mode Stream::new finalises with the device's
\* configuration and the stream starts to play.
Run(target) ==
    /\ pc = "compile"
    /\ output_target' = target
    /\ LET config == IF target = "Dac"
                     THEN SupportedStreamConfig(DeviceChannels, DeviceSampleRate)
                     ELSE SupportedStreamConfig(CHANNELS, SAMPLE_RATE)
       IN \E f \in { finalise(config.sample_rate) } :
          /\ audio_config' = config
          /\ instruments' = f.instruments
          /\ score_events' = f.score_events
          /\ sorted_score_events' = f.sorted_score_events
          /\ len' = IF target = "Dac" THEN 0
                    ELSE to_samples(f.last_end_sample, SAMPLE_RATE)
    /\ driver_counter' = 0
    /\ pc' = CASE target = "Dac" -> "playing"
               [] target = "File" -> "write_to_file"
               [] target = "None" -> "run_no_output"
    /\ UNCHANGED << active_score_events, sample_counter, perf_count, samples,
                    buffer, outputs, calls, blocks, instance_count, rc_vars, compiler_vars >>

\* The samples of a buffer in the order write_to_file pushes them.
interleaved(buff) ==
    [k \in 1..(buff.buffer_size * buff.channels) |->
        get_sample(buff, (k - 1) % buff.channels, (k - 1) \div buff.channels)]

\* One pass of `while sample_counter < len` in write_to_file.
WriteToFileBlock ==
    /\ pc = "write_to_file"
    /\ driver_counter < len
    /\ \E seed \in NoiseSeeds :
        \E g \in { get_next_buffer(VM, CHANNELS, BUFFER_SIZE, seed) } :
           /\ VMAfterBuffer(g)
           /\ IF g.env.panicked
              THEN pc' = "panicked" /\ UNCHANGED << samples, driver_counter >>
              ELSE /\ samples' = samples \o interleaved(g.env.buffer)
                   /\ driver_counter' = driver_counter + DRIVER_STEP
                   /\ pc' = pc
    /\ UNCHANGED << output_target, len >>

\* The VM that VM::new makes, as get_next_buffer takes it.
VM_new == [sample_counter |-> 0, active |-> <<>>, perf_count |-> 0,
           calls |-> <<>>, count |-> 0]

\* The whole loop `while sample_counter < len` of write_to_file from the VM
\* `self`, the samples `pushed` and the local counter `counter` on, with the
\* thread's generator in state seed at every block: the VM and the samples
\* it ends with.
RECURSIVE write_to_file_loop(_, _, _, _)
write_to_file_loop(self, pushed, counter, seed) ==
    IF ~(counter < len) THEN [self |-> self, samples |-> pushed]
    ELSE Let(get_next_buffer(self, CHANNELS, BUFFER_SIZE, seed),
             LAMBDA g :
                 IF g.env.panicked THEN [self |-> g, samples |-> pushed]
                 ELSE write_to_file_loop(g, pushed \o interleaved(g.env.buffer),
                                         counter + DRIVER_STEP, seed))

\* The loop of write_to_file ends and the samples are written.
WriteToFileEnd ==
    /\ pc = "write_to_file"
    /\ ~(driver_counter < len)
    /\ pc' = "done"
    /\ UNCHANGED << instruments, score_events, sorted_score_events,
                    active_score_events, sample_counter, audio_config, perf_count,
                    output_target, len, driver_counter, samples, buffer, outputs,
                    calls, blocks, instance_count, rc_vars, compiler_vars >>

\* One pass of run_no_output's loop under `while sample_counter <= len`.
RunNoOutputBlock_while_le ==
    /\ pc = "run_no_output"
    /\ driver_counter <= len
    /\ \E seed \in NoiseSeeds :
        \E g \in { get_next_buffer(VM, CHANNELS, BUFFER_SIZE, seed) } :
           /\ VMAfterBuffer(g)
           /\ IF g.env.panicked
              THEN pc' = "panicked" /\ UNCHANGED driver_counter
              ELSE /\ driver_counter' = driver_counter + DRIVER_STEP
                   /\ pc' = pc
    /\ UNCHANGED << output_target, len, samples >>

\* One pass of `while sample_counter < len` in run_no_output.
RunNoOutputBlock ==
    /\ pc = "run_no_output"
    /\ driver_counter < len
    /\ \E seed \in NoiseSeeds :
        \E g \in { get_next_buffer(VM, CHANNELS, BUFFER_SIZE, seed) } :
           /\ VMAfterBuffer(g)
           /\ IF g.env.panicked
              THEN pc' = "panicked" /\ UNCHANGED driver_counter
              ELSE /\ driver_counter' = driver_counter + DRIVER_STEP
                   /\ pc' = pc
    /\ UNCHANGED << output_target, len, samples >>

RunNoOutputEnd ==
    /\ pc = "run_no_output"
    /\ ~(driver_counter < len)
    /\ pc' = "done"
    /\ UNCHANGED << instruments, score_events, sorted_score_events,
                    active_score_events, sample_counter, audio_config, perf_count,
                    output_target, len, driver_counter, samples, buffer, outputs,
                    calls, blocks, instance_count, rc_vars, compiler_vars >>

\* Stream::audio_callback for a callback of `frames` frames.
AudioCallback(frames) ==
    /\ pc = "playing"
    /\ perf_count < MaxCallbacks
    /\ \E seed \in NoiseSeeds :
        \E g \in { get_next_buffer(VM, audio_config.channels, frames, seed) } :
           /\ VMAfterBuffer(g)
           /\ pc' = IF g.env.panicked THEN "panicked" ELSE pc
    /\ UNCHANGED << output_target, len, driver_counter, samples >>

\* VM::run in device mode wakes from its sleep and the stream is dropped.
StreamEnd ==
    /\ pc = "playing"
    /\ pc' = "done"
    /\ UNCHANGED << instruments, score_events, sorted_score_events,
                    active_score_events, sample_counter, audio_config, perf_count,
                    output_target, len, driver_counter, samples, buffer, outputs,
                    calls, blocks, instance_count, rc_vars, compiler_vars >>

Next ==
    \/ InstrumentsBlock
    \/ \E line \in ScoreLines : AddScoreEvent(line)
    \/ \E target \in OutputTargets : Run(target)
    \/ WriteToFileBlock
    \/ WriteToFileEnd
    \/ RunNoOutputBlock
    \/ RunNoOutputEnd
    \/ \E frames \in CallbackFrames : AudioCallback(frames)
    \/ StreamEnd

Spec == Init /\ [][Next]_vars

\* ----------------------------------------------------------------- the log
\* The places of the log where `op` was done to the instance id.
CallsOf(op, id) == { k \in 1..Len(calls) : calls[k].op = op /\ calls[k].id = id }

\* The places of the log where an instance of the score event e was created.
CreationsOf(e) == { k \in 1..Len(calls) : calls[k].op = "create" /\ calls[k].event = e }

\* The event instances created so far.
Instances == 1..instance_count

\* Start sample and length in samples of the score event e, once finalise ran.
StartSample(e) == to_samples(score_events[e].start_time, audio_config.sample_rate)
DurationSamples(e) == to_samples(score_events[e].duration, audio_config.sample_rate)

\* The samples the blocks of the log places S hold together.
RECURSIVE SumSizes(_)
SumSizes(S) ==
    IF S = {} THEN 0
    ELSE LET k == CHOOSE x \in S : TRUE
         IN blocks[calls[k].block].size + SumSizes(S \ {k})

\* ------------------------------------------------------------------ claims
\* C1: every event instance created by get_next_buffer has run_init invoked
\* exactly once, and that invocation comes strictly before the first run_perf
\* on the same instance, whatever the sequence of get_next_buffer calls.
C1_InitOnceBeforePerf ==
    \A id \in Instances :
        /\ Cardinality(CallsOf("create", id)) = 1
        /\ Cardinality(CallsOf("init", id)) = 1
        /\ \A c \in CallsOf("create", id), i \in CallsOf("init", id) : c < i
        /\ \A i \in CallsOf("init", id), p \in CallsOf("perf", id) : i < p

\* An instance that has run perf in two blocks (after its one init).
C1_Witness ==
    \E id \in Instances :
        /\ Cardinality(CallsOf("init", id)) = 1
        /\ Cardinality(CallsOf("perf", id)) >= 2

\* C2: after finalise a score event with start sample s is instantiated, and
\* its init run, exactly once: in the get_next_buffer call whose range
\* [sample_counter, sample_counter + buffer_size) contains s, before that
\* block's perf pass; never in an earlier or later block, never a second time.
C2_InstantiatedOnceInItsBlock ==
    pc \notin {"compile", "panicked"} =>
        /\ \A e \in 1..Len(score_events) :
              /\ Cardinality(CreationsOf(e)) <= 1
              /\ StartSample(e) < sample_counter => Cardinality(CreationsOf(e)) = 1
        /\ \A k \in 1..Len(calls) :
              calls[k].op = "create" =>
                  LET b == blocks[calls[k].block]
                      s == StartSample(calls[k].event)
                  IN /\ b.start <= s /\ s < b.start + b.size
                     /\ calls[k].at = s
                     /\ k < Len(calls)
                     /\ calls[k + 1].op = "init" /\ calls[k + 1].id = calls[k].id
                     /\ \A j \in 1..Len(calls) :
                           (calls[j].op = "perf" /\ calls[j].block = calls[k].block)
                               => k < j

\* A score event that starts inside a later block than the first was
\* instantiated there, and that block's perf pass ran it.
C2_Witness ==
    /\ pc \notin {"compile", "panicked"}
    /\ \E k \in 1..Len(calls) :
          /\ calls[k].op = "create"
          /\ calls[k].block > 1
          /\ blocks[calls[k].block].start < StartSample(calls[k].event)
          /\ \E j \in CallsOf("perf", calls[k].id) : calls[j].block = calls[k].block

\* C3: an event instance leaves the active list by exactly the first run_perf
\* after which its sample_counter (the sum of the sizes of the blocks it ran
\* perf in) is >= duration_samples: no earlier perf removes it and it gets no
\* perf after that one.
C3_RetiredByFirstPerfPastDuration ==
    pc \notin {"compile", "panicked"} =>
        /\ \A k \in 1..Len(calls) :
              calls[k].op = "perf" =>
                  LET id == calls[k].id
                      counter == SumSizes({ j \in CallsOf("perf", id) : j <= k })
                      retired == /\ k < Len(calls)
                                 /\ calls[k + 1].op = "retire"
                                 /\ calls[k + 1].id = id
                  IN /\ retired <=> counter >= DurationSamples(calls[k].event)
                     /\ \A j \in CallsOf("retire", id) : k < j
        /\ \A k \in 1..Len(calls) :
              calls[k].op = "retire" =>
                  k > 1 /\ calls[k - 1].op = "perf" /\ calls[k - 1].id = calls[k].id
        /\ \A id \in Instances :
              (\E i \in 1..Len(active_score_events) : active_score_events[i].id = id)
                  <=> CallsOf("retire", id) = {}

\* An instance that ran perf in one block and stayed, and was retired by its
\* perf in a later block.
C3_Witness ==
    /\ pc \notin {"compile", "panicked"}
    /\ \E id \in Instances :
          \E p \in CallsOf("perf", id), q \in CallsOf("perf", id), r \in CallsOf("retire", id) :
              p < q /\ r = q + 1

\* The score event whose instance id is.
EventOf(id) == calls[CHOOSE k \in CallsOf("create", id) : TRUE].event

\* C4: for a score event whose duration is zero (duration_samples = 0), init
\* runs once, perf is called zero times, and the event contributes no samples
\* to any output block.
C4_ZeroDurationNeverPerforms ==
    pc \notin {"compile", "panicked"} =>
        \A e \in 1..Len(score_events) :
            DurationSamples(e) = 0 =>
                /\ \A k \in 1..Len(calls) :
                      calls[k].event = e => calls[k].op \in {"create", "init"}
                /\ Cardinality({ k \in 1..Len(calls) :
                                    calls[k].event = e /\ calls[k].op = "init" }) <= 1
                /\ StartSample(e) < sample_counter =>
                      \E k \in 1..Len(calls) : calls[k].event = e /\ calls[k].op = "init"
                /\ \A k \in 1..Len(outputs) :
                      outputs[k].perf => EventOf(outputs[k].id) # e

\* C5: after finalise every score event that add_score_event added is in
\* exactly one bucket of the start-sample map, the bucket keyed
\* floor(start_time * sample_rate), once; and the buckets hold no event that
\* was not added.
C5_EveryEventInOneBucket ==
    pc # "compile" =>
        /\ \A e \in 1..Len(score_events) :
              /\ StartSample(e) \in DOMAIN sorted_score_events
              /\ \A k \in DOMAIN sorted_score_events :
                    Cardinality({ j \in 1..Len(sorted_score_events[k]) :
                                     sorted_score_events[k][j].index = e })
                        = IF k = StartSample(e) THEN 1 ELSE 0
        /\ \A k \in DOMAIN sorted_score_events :
              \A j \in 1..Len(sorted_score_events[k]) :
                  /\ sorted_score_events[k][j].index \in 1..Len(score_events)
                  /\ sorted_score_events[k][j]
                        = score_events[sorted_score_events[k][j].index]

\* The score is full and two of its events share a bucket.
C5_Witness ==
    /\ pc # "compile"
    /\ Len(score_events) = MaxEvents
    /\ \E k \in DOMAIN sorted_score_events : Len(sorted_score_events[k]) >= 2

\* The pairs << c1, c2 >> of creations, in one get_next_buffer call, of the
\* instances of two score events.
FiredTogether ==
    { p \in (1..Len(calls)) \X (1..Len(calls)) :
        /\ calls[p[1]].op = "create" /\ calls[p[2]].op = "create"
        /\ p[1] # p[2]
        /\ calls[p[1]].block = calls[p[2]].block }

\* The instances created at c1 and c2 were created, had their init run and
\* ran that block's perf in this order.
FiredInOrder(c1, c2) ==
    /\ c1 < c2
    /\ \A i \in CallsOf("init", calls[c1].id), j \in CallsOf("init", calls[c2].id) : i < j
    /\ \A i \in CallsOf("perf", calls[c1].id), j \in CallsOf("perf", calls[c2].id) :
          (calls[i].block = calls[c1].block /\ calls[j].block = calls[c1].block) => i < j

\* C6 as the claim states it: among the score events that fire within one
\* get_next_buffer call, instantiation, init and the block's perf pass happen
\* in the order of the events in the source file, whatever their start
\* samples inside the block are.
C6_FireInSourceOrder ==
    pc \notin {"compile", "panicked"} =>
        \A p \in FiredTogether :
            calls[p[1]].event < calls[p[2]].event => FiredInOrder(p[1], p[2])

\* C6 amended: among the score events that fire within one get_next_buffer
\* call, instantiation, init and the block's perf pass happen in ascending
\* order of start sample, and in source order among events with the same
\* start sample.
C6_FireInStartSampleOrder ==
    pc \notin {"compile", "panicked"} =>
        \A p \in FiredTogether :
            LET e1 == calls[p[1]].event
                e2 == calls[p[2]].event
            IN (\/ StartSample(e1) < StartSample(e2)
                \/ (StartSample(e1) = StartSample(e2) /\ e1 < e2))
                   => FiredInOrder(p[1], p[2])

\* Two events fired in one block, the later in the source file first, and
\* both ran that block's perf.
C6_Witness ==
    /\ pc \notin {"compile", "panicked"}
    /\ \E p \in FiredTogether :
          /\ calls[p[1]].event > calls[p[2]].event
          /\ StartSample(calls[p[1]].event) < StartSample(calls[p[2]].event)
          /\ \E i \in CallsOf("perf", calls[p[1]].id), j \in CallsOf("perf", calls[p[2]].id) :
                calls[i].block = calls[p[1]].block /\ calls[j].block = calls[p[1]].block

\* C7: score events with the same start sample are instantiated in the order
\* of the source file, and run perf in that order in every block in which
\* both are live.
C7_TiesInSourceOrder ==
    pc \notin {"compile", "panicked"} =>
        \A c1, c2 \in 1..Len(calls) :
            (/\ calls[c1].op = "create" /\ calls[c2].op = "create"
             /\ StartSample(calls[c1].event) = StartSample(calls[c2].event)
             /\ calls[c1].event < calls[c2].event)
                => /\ c1 < c2
                   /\ \A i \in CallsOf("perf", calls[c1].id),
                         j \in CallsOf("perf", calls[c2].id) :
                         calls[i].block = calls[j].block => i < j

\* Two events with one start sample have both run perf in two blocks.
C7_Witness ==
    /\ pc \notin {"compile", "panicked"}
    /\ \E c1, c2 \in 1..Len(calls) :
          /\ calls[c1].op = "create" /\ calls[c2].op = "create"
          /\ c1 # c2
          /\ StartSample(calls[c1].event) = StartSample(calls[c2].event)
          /\ \E i \in CallsOf("perf", calls[c1].id), j \in CallsOf("perf", calls[c2].id) :
                /\ calls[i].block = calls[j].block
                /\ calls[i].block > calls[c1].block

\* The sample (channel, sample) of the first n Audio values Output mixed in
\* the last call, summed; a value without that channel adds nothing.
RECURSIVE SumOutputs(_, _, _)
SumOutputs(n, channel, sample) ==
    IF n = 0 THEN 0
    ELSE SumOutputs(n - 1, channel, sample)
         + (IF channel < outputs[n].audio.channels
            THEN get_sample(outputs[n].audio, channel, sample)
            ELSE 0)

\* C8: on return from get_next_buffer every sample of the returned buffer is
\* the sum of the corresponding samples of the Audio values passed to Output
\* by the init and perf invocations of that call (over the channels a value
\* has), starting from a zeroed buffer; nothing is carried over from an
\* earlier block.
C8_BufferIsSumOfOutputs ==
    pc # "panicked" =>
        \A channel \in 0..(buffer.channels - 1), sample \in 0..(buffer.buffer_size - 1) :
            get_sample(buffer, channel, sample) = SumOutputs(Len(outputs), channel, sample)

\* A block after the first in which Output mixed two values, from init and
\* from perf, into a sample that is not zero.
C8_Witness ==
    /\ pc # "panicked"
    /\ perf_count >= 2
    /\ Len(outputs) >= 2
    /\ \E i, j \in 1..Len(outputs) : outputs[i].perf /\ ~outputs[j].perf
    /\ \E sample \in 0..(buffer.buffer_size - 1) :
          /\ get_sample(outputs[1].audio, 0, sample) # 0
          /\ get_sample(outputs[2].audio, 0, sample) # 0
          /\ get_sample(buffer, 0, sample) # 0

\* The instrument of the instance id.
InstrumentOf(id) ==
    instruments[score_events[EventOf(id)].instrument_index + 1].instrument_name

\* C9: when an instrument outputs the Audio value produced by Oscil into a
\* 2-channel block (file mode), every frame of the rendered block holds
\* identical samples in both channels.
C9_OscilFramesIdenticalInBothChannels ==
    (/\ output_target = "File"
     /\ pc \in {"write_to_file", "done"}
     /\ Len(outputs) > 0
     /\ \A k \in 1..Len(outputs) : InstrumentOf(outputs[k].id) = "osc")
        => /\ buffer.channels = 2
           /\ \A sample \in 0..(buffer.buffer_size - 1) :
                 get_sample(buffer, 0, sample) = get_sample(buffer, 1, sample)

\* max(start_time + duration) over the score events, 0.0 for none.
RECURSIVE ProgramLength(_)
ProgramLength(n) ==
    IF n = 0 THEN 0
    ELSE LET end_time == score_events[n].start_time + score_events[n].duration
             rest == ProgramLength(n - 1)
         IN IF end_time > rest THEN end_time ELSE rest

\* ceil(a / b) for a >= 0, b > 0.
CeilDiv(a, b) == (a + b - 1) \div b

\* C10: in file mode and in none mode the driver produces 480-frame blocks
\* until the samples emitted are >= L = floor(program_length * 48000) and then
\* stops: the run ends after exactly ceil(L / 480) calls of get_next_buffer,
\* the driver's counter equals the VM's sample_counter after every block, and
\* with zero score events no block is produced (a WAV of zero frames).
C10_DriverProducesCeilBlocks ==
    pc \in {"write_to_file", "run_no_output", "done"} /\ output_target # "Dac" =>
        /\ len = (ProgramLength(Len(score_events)) * 48000) \div TimeDen
        /\ driver_counter = sample_counter
        /\ sample_counter = 480 * perf_count
        /\ \A b \in 1..Len(blocks) : blocks[b].size = 480 /\ blocks[b].start < len
        /\ perf_count <= CeilDiv(len, 480)
        /\ pc = "done" => perf_count = CeilDiv(len, 480) /\ sample_counter >= len
        /\ pc # "done" => (ENABLED WriteToFileEnd \/ ENABLED RunNoOutputEnd
                             <=> sample_counter >= len)
        /\ output_target = "File" => Len(samples) = 480 * 2 * perf_count
        /\ Len(score_events) = 0 => perf_count = 0 /\ samples = << >>

\* A run to file that ended after two blocks, L not a multiple of 480.
C10_Witness ==
    /\ pc = "done"
    /\ output_target = "File"
    /\ perf_count = 2
    /\ len % 480 # 0
    /\ Len(samples) = 1920

\* The instrument of the score event e.
InstrumentOfEvent(e) == instruments[score_events[e].instrument_index + 1]

\* The score uses deterministic components only: no function of an instrument
\* it plays calls Noise.
DeterministicScore ==
    \A e \in 1..Len(score_events) :
        LET components == InstrumentOfEvent(e).init_func.components
                          \o InstrumentOfEvent(e).perf_func.components
        IN \A k \in 1..Len(components) : components[k].name # "Noise"

RECURSIVE render_by_one(_, _, _, _)
render_by_one(self, channels, n, frames) ==
    IF n = 0 THEN frames
    ELSE Let(get_next_buffer(self, channels, 1, 0),
             LAMBDA g : render_by_one(g, channels, n - 1,
                            Append(frames, [ch \in 1..channels |->
                                               get_sample(g.env.buffer, ch - 1, 0)])))

\* The block the last get_next_buffer returned holds, sample for sample, what
\* a rendering of the same score by blocks of one sample holds there.
LastBlockAsByOne ==
    \E by_one \in { render_by_one(VM_new, buffer.channels, sample_counter, <<>>) } :
        \A k \in 1..buffer.buffer_size, ch \in 1..buffer.channels :
            get_sample(buffer, ch - 1, k - 1) = by_one[blocks[Len(blocks)].start + k][ch]

\* Every block so far has size B, every score event starts at a multiple of B
\* and lasts a positive multiple of B samples.
AlignedTo(B) ==
    /\ \A b \in 1..Len(blocks) : blocks[b].size = B
    /\ \A e \in 1..Len(score_events) :
          /\ StartSample(e) % B = 0
          /\ DurationSamples(e) > 0 /\ DurationSamples(e) % B = 0

Rc_new(heap, value) ==
    [heap |-> Append(heap, value), value |-> Value_audio(Len(heap) + 1)]

\* Value::get_audio through the pointer: the value an operator's arm reads.
Rc_deref(heap, v) ==
    IF v.value_type = "Audio" THEN Value_audio(heap[v.value]) ELSE v

\* An operator that works on the buffer behind the pointer of self instead
\* of on a clone of it, and returns self.
binary_op_in_place(heap, op, self, rhs) ==
    LET lhs == Rc_deref(heap, self)
        r == Rc_deref(heap, rhs)
        v == CASE op = "Add" -> Value_add(lhs, r)
               [] op = "Multiply" -> Value_mul(lhs, r)
               [] op = "Subtract" -> Value_sub(lhs, r)
    IN IF v.value_type = "Audio"
       THEN [heap |-> Append([heap EXCEPT ![self.value] = get_audio(v)], get_audio(v)),
             value |-> Value_audio(Len(heap) + 1)]
       ELSE [heap |-> heap, value |-> v]

\* `lhs + rhs`, `lhs * rhs`, `lhs - rhs` of run_ops: the Audio arm clones the
\* buffer of self, works on the clone and wraps it with Value::audio.
binary_op(heap, op, self, rhs) ==
    LET lhs == Rc_deref(heap, self)
        r == Rc_deref(heap, rhs)
        v == CASE op = "Add" -> Value_add(lhs, r)
               [] op = "Multiply" -> Value_mul(lhs, r)
               [] op = "Subtract" -> Value_sub(lhs, r)
    IN IF v.value_type = "Audio" THEN Rc_new(heap, get_audio(v))
       ELSE [heap |-> heap, value |-> v]

\* What rc_last holds after a step that is not an Audio operator.
Rc_step == [op |-> "none"]

\* Op::CallComponent of a generator with one argument: the argument is
\* popped, and the buffer the component filled is pushed as a new Value.
Rc_CallComponent ==
    /\ Len(rc_stack) >= 1
    /\ Top(rc_stack).value_type \in {"Int", "Float"}
    /\ Len(rc_heap) < MaxRc
    /\ \E x \in GeneratedSamples :
          LET r == Rc_new(rc_heap,
                          [AudioBuffer_new(1, 1) EXCEPT !.data[1][1] = x])
          IN /\ rc_heap' = r.heap
             /\ rc_stack' = Append(Pop(rc_stack), r.value)
    /\ rc_last' = Rc_step
    /\ UNCHANGED << rc_locals, rc_variables >>

\* A number is loaded as the argument of a component or as an operand of an
\* Audio value: never on top of another number.
Rc_LoadConstant ==
    /\ Len(rc_stack) < MaxStack
    /\ IF rc_stack = <<>> THEN TRUE ELSE Top(rc_stack).value_type = "Audio"
    /\ \E v \in {Value_int(2), Value_float(2)} : rc_stack' = Append(rc_stack, v)
    /\ rc_last' = Rc_step
    /\ UNCHANGED << rc_heap, rc_locals, rc_variables >>

\* Value::clone of an Audio value clones the Rc: the same buffer.
Rc_LoadMember ==
    /\ Len(rc_stack) < MaxStack
    /\ rc_stack' = Append(rc_stack, rc_variables[1])
    /\ rc_last' = Rc_step
    /\ UNCHANGED << rc_heap, rc_locals, rc_variables >>

Rc_LoadLocal ==
    /\ Len(rc_stack) < MaxStack
    /\ Len(rc_locals) >= 1
    /\ rc_stack' = Append(rc_stack, rc_locals[1])
    /\ rc_last' = Rc_step
    /\ UNCHANGED << rc_heap, rc_locals, rc_variables >>

\* The member and the local of the invocation are declared Audio.
Rc_AssignMember ==
    /\ Len(rc_stack) >= 1
    /\ Top(rc_stack).value_type = "Audio"
    /\ rc_variables' = [rc_variables EXCEPT ![1] = Top(rc_stack)]
    /\ rc_stack' = Pop(rc_stack)
    /\ rc_last' = Rc_step
    /\ UNCHANGED << rc_heap, rc_locals >>

Rc_AssignLocal ==
    /\ Len(rc_stack) >= 1
    /\ Top(rc_stack).value_type = "Audio"
    /\ Len(rc_locals) >= 1
    /\ rc_locals' = [rc_locals EXCEPT ![1] = Top(rc_stack)]
    /\ rc_stack' = Pop(rc_stack)
    /\ rc_last' = Rc_step
    /\ UNCHANGED << rc_heap, rc_variables >>

Rc_DeclareLocal ==
    /\ Len(rc_stack) >= 1
    /\ Top(rc_stack).value_type = "Audio"
    /\ Len(rc_locals) < 1
    /\ rc_locals' = Append(rc_locals, Top(rc_stack))
    /\ rc_stack' = Pop(rc_stack)
    /\ rc_last' = Rc_step
    /\ UNCHANGED << rc_heap, rc_variables >>

\* Op::Output, Op::Print and Op::PrintLn read the popped value.
Rc_Pop ==
    /\ Len(rc_stack) >= 1
    /\ rc_stack' = Pop(rc_stack)
    /\ rc_last' = Rc_step
    /\ UNCHANGED << rc_heap, rc_locals, rc_variables >>

\* Op::Add, Op::Multiply and Op::Subtract with an Audio operand (run_op has
\* the arithmetic of numbers).  An unreachable arm ends the invocation.
Rc_Binary ==
    /\ Len(rc_stack) >= 2
    /\ Len(rc_heap) < MaxRc
    /\ "Audio" \in { rc_stack[i].value_type : i \in Len(rc_stack) - 1..Len(rc_stack) }
    /\ \E op \in {"Add", "Multiply", "Subtract"} :
          LET n == Len(rc_stack)
              lhs == rc_stack[n - 1]
              rhs == rc_stack[n]
              r == binary_op(rc_heap, op, lhs, rhs)
          IN IF r.value = Panic
             THEN /\ rc_stack' = <<>>
                  /\ rc_locals' = <<>>
                  /\ rc_heap' = rc_heap
                  /\ rc_last' = Rc_step
             ELSE /\ rc_stack' = Append(SubSeq(rc_stack, 1, n - 2), r.value)
                  /\ rc_heap' = r.heap
                  /\ rc_locals' = rc_locals
                  /\ rc_last' = [op |-> op, lhs |-> lhs, rhs |-> rhs,
                                 heap |-> rc_heap]
    /\ UNCHANGED rc_variables

\* run_ops returns: its stack and its locals are dropped, the members stay.
Rc_Return ==
    /\ rc_stack' = <<>>
    /\ rc_locals' = <<>>
    /\ rc_last' = Rc_step
    /\ UNCHANGED << rc_heap, rc_variables >>

VMUnchanged ==
    UNCHANGED << instruments, score_events, sorted_score_events,
                 active_score_events, sample_counter, audio_config, perf_count,
                 pc, output_target, len, driver_counter, samples, buffer,
                 outputs, calls, blocks, instance_count, compiler_vars >>

RcNext ==
    \/ Rc_CallComponent /\ VMUnchanged
    \/ Rc_LoadConstant /\ VMUnchanged
    \/ Rc_LoadMember /\ VMUnchanged
    \/ Rc_LoadLocal /\ VMUnchanged
    \/ Rc_AssignMember /\ VMUnchanged
    \/ Rc_AssignLocal /\ VMUnchanged
    \/ Rc_DeclareLocal /\ VMUnchanged
    \/ Rc_Pop /\ VMUnchanged
    \/ Rc_Binary /\ VMUnchanged
    \/ Rc_Return /\ VMUnchanged

SpecRc == Init /\ [][RcNext]_vars

\* The places that hold a pointer to the buffer at address a.
Aliases(a) ==
    { << "member", i >> : i \in { j \in 1..Len(rc_variables) :
          rc_variables[j] = Value_audio(a) } }
    \cup { << "local", i >> : i \in { j \in 1..Len(rc_locals) :
          rc_locals[j] = Value_audio(a) } }
    \cup { << "stack", i >> : i \in { j \in 1..Len(rc_stack) :
          rc_stack[j] = Value_audio(a) } }

AudioArithmetic ==
    /\ rc_last.op \in {"Add", "Multiply", "Subtract"}
    /\ rc_last.lhs.value_type = "Audio"

Source(items, score) == [items |-> items, score |-> score]

\* An event of the source: name(start duration calls...); a call is
\* init(args) or perf(args), its args literal tokens.
EventSource(instrument_name, start_time, duration, event_calls) ==
    [instrument_name |-> instrument_name, start_time |-> start_time,
     duration |-> duration, calls |-> event_calls]
CallSource(context, args) == [token |-> context, args |-> args]

token_type(token) ==
    CASE token = "Integer" -> "Int" [] token = "Float" -> "Float"
      [] token = "String" -> "String"

token_value(t) ==
    CASE t.token = "Integer" -> Value_int(parse_number(t.text))
      [] t.token = "Float" -> Value_float(parse_number(t.text))
      [] t.token = "String" -> Value_string(parse_string(t.text))

\* instrument_num_init_args, instrument_num_perf_args, and
\* instrument_init_arg_type, instrument_perf_arg_type of the VM: of the first
\* instrument of that name.
instrument_num_args(instrument_name, context) ==
    num_args(instruments[instrument_position(instrument_name) + 1], context)
instrument_arg_type(instrument_name, context, index) ==
    arg_type(instruments[instrument_position(instrument_name) + 1], context, index)

\* The loop of score_event over the args of one init(...) or perf(...):
\* arg_count counts the args of this call, `pushed` is init_args or
\* perf_args.
RECURSIVE score_event_args(_, _, _, _, _)
score_event_args(instrument_name, context, args, arg_count, pushed) ==
    IF arg_count = Len(args)
    THEN [ok |-> arg_count = instrument_num_args(instrument_name, context),
          pushed |-> pushed]
    ELSE IF arg_count = instrument_num_args(instrument_name, context)
    THEN [ok |-> FALSE, pushed |-> pushed]
    ELSE IF token_type(args[arg_count + 1].token)
                # instrument_arg_type(instrument_name, context, arg_count)
    THEN [ok |-> FALSE, pushed |-> pushed]
    ELSE score_event_args(instrument_name, context, args, arg_count + 1,
                          Append(pushed, token_value(args[arg_count + 1])))

\* The loop of score_event over the calls of the event.
RECURSIVE score_event_calls(_, _, _, _)
score_event_calls(instrument_name, cs, i, st) ==
    IF i > Len(cs) THEN st
    ELSE IF cs[i].token = "InitFunc"
    THEN LET r == score_event_args(instrument_name, "InitFunc", cs[i].args, 0,
                                   st.init_args)
         IN IF ~r.ok THEN [st EXCEPT !.ok = FALSE]
            ELSE score_event_calls(instrument_name, cs, i + 1,
                    [st EXCEPT !.init_args = r.pushed, !.had_init_call = TRUE])
    ELSE LET r == score_event_args(instrument_name, "PerfFunc", cs[i].args, 0,
                                   st.perf_args)
         IN IF ~r.ok THEN [st EXCEPT !.ok = FALSE]
            ELSE score_event_calls(instrument_name, cs, i + 1,
                    [st EXCEPT !.perf_args = r.pushed, !.had_perf_call = TRUE])

\* score_event: ok, and the arguments add_score_event gets.
score_event(ev) ==
    LET instrument_name == ev.instrument_name
        failed == [ok |-> FALSE, init_args |-> <<>>, perf_args |-> <<>>]
    IN IF ~has_instrument(instrument_name) THEN failed
       ELSE LET st == score_event_calls(instrument_name, ev.calls, 1,
                        [ok |-> TRUE, init_args |-> <<>>, perf_args |-> <<>>,
                         had_init_call |-> FALSE, had_perf_call |-> FALSE])
            IN IF ~st.ok THEN failed
               ELSE IF instrument_num_args(instrument_name, "InitFunc") > 0
                       /\ ~st.had_init_call THEN failed
               ELSE IF instrument_num_args(instrument_name, "PerfFunc") > 0
                       /\ ~st.had_perf_call THEN failed
               ELSE [ok |-> TRUE, init_args |-> st.init_args,
                     perf_args |-> st.perf_args]

\* The VM fields that neither the compiler nor an invocation writes.
RunUnchanged ==
    UNCHANGED << sorted_score_events, active_score_events, sample_counter,
                 audio_config, perf_count, pc, output_target, len, driver_counter,
                 samples, buffer, outputs, calls, blocks, instance_count, rc_vars,
                 proc >>

Scanning(block) == ~compiler.had_error /\ compiler.scanner = block

\* The loop of Compiler::instrument at an identifier: a member variable.
Instrument_member_variable ==
    /\ Scanning("instrument")
    /\ compiler.source.items # <<>>
    /\ Head(compiler.source.items).token = "Identifier"
    /\ compiler' = member_variable(
            [compiler EXCEPT !.source.items = Tail(@)], Head(compiler.source.items))
    /\ UNCHANGED << instruments, score_events, invocation >>
    /\ RunUnchanged

\* The loop of Compiler::instrument at init or perf: a function.
Instrument_function ==
    /\ Scanning("instrument")
    /\ compiler.source.items # <<>>
    /\ Head(compiler.source.items).token \in {"InitFunc", "PerfFunc"}
    /\ \E r \in { function([compiler EXCEPT !.source.items = Tail(@)],
                           Head(compiler.source.items)) } : compiler' = r
    /\ UNCHANGED << instruments, score_events, invocation >>
    /\ RunUnchanged

\* The loop of Compiler::instrument at the closing brace: the instrument goes
\* to VM::add_instrument, and the score block follows.
Instrument_BraceClose ==
    /\ Scanning("instrument")
    /\ compiler.source.items = <<>>
    /\ instruments' = Append(instruments, compiler.instrument)
    /\ compiler' = [compiler EXCEPT !.scanner = "score"]
    /\ UNCHANGED << score_events, invocation >>
    /\ RunUnchanged

\* The loop of Compiler::score_block at an identifier: score_event.
ScoreEvent ==
    /\ Scanning("score")
    /\ compiler.source.score # <<>>
    /\ LET ev == Head(compiler.source.score)
           r == score_event(ev)
       IN IF r.ok
          THEN /\ score_events' = Append(score_events,
                    new_score_event([instrument_name |-> ev.instrument_name,
                                     start_time |-> ev.start_time,
                                     duration |-> ev.duration,
                                     init_args |-> r.init_args,
                                     perf_args |-> r.perf_args]))
               /\ compiler' = [compiler EXCEPT !.source.score = Tail(@)]
          ELSE /\ score_events' = score_events
               /\ compiler' = error([compiler EXCEPT !.source.score = Tail(@)])
    /\ UNCHANGED << instruments, invocation >>
    /\ RunUnchanged

\* The stream of the first call of get_next_buffer, and the frame counts the
\* later calls may come with.
InvocationStream == StreamInfo(DeviceSampleRate, 1, DeviceChannels)
InvocationFrames == {1, 2}
MaxBlocks == 2            \* calls of get_next_buffer an instance is followed through

\* The locals run_ops starts with, for the function `perf` of self.
run_ops_entry(self, perf, stream_info) ==
    [stack |-> <<>>, locals |-> <<>>, variables |-> self.variables,
     components |-> IF perf THEN self.perf_func.components
                    ELSE self.init_func.components,
     buffer |-> AudioBuffer_new(stream_info.channels, stream_info.buffer_size),
     rng |-> [seed |-> 0, draws |-> 0], outputs |-> <<>>, panicked |-> FALSE,
     id |-> 1, perf |-> perf]

OpsOf(inv) ==
    IF inv.func = "PerfFunc" THEN inv.instance.perf_func.ops
    ELSE inv.instance.init_func.ops

ArgsOf(inv) ==
    IF inv.func = "PerfFunc" THEN inv.instance.perf_args ELSE inv.instance.init_args

\* Invoke as it would be if compile_and_run called Compiler::run whatever
\* had_error holds.
Invoke_despite_errors ==
    /\ compiler.scanner = "score"
    /\ compiler.source.score = <<>>
    /\ score_events # <<>>
    /\ invocation.func = "none"
    /\ LET event == score_events[1]
           instance == [id |-> 1, event |-> event.index] @@
                       Instrument_create_event_instance(
                            Instrument_finalise(instruments[event.instrument_index + 1]),
                            to_samples(event.duration, InvocationStream.sample_rate),
                            event.init_args, event.perf_args)
       IN invocation' = [func |-> "InitFunc", ip |-> 0, instance |-> instance,
                         st |-> run_ops_entry(instance, FALSE, InvocationStream),
                         last |-> <<>>, stream |-> InvocationStream, block |-> 1]
    /\ UNCHANGED << instruments, score_events, compiler >>
    /\ RunUnchanged

\* The score block is over and the VM runs: the instance of the first event
\* is created, as finalise and get_next_buffer do, and run_init calls run_ops.
Invoke ==
    /\ Scanning("score")
    /\ compiler.source.score = <<>>
    /\ score_events # <<>>
    /\ invocation.func = "none"
    /\ LET event == score_events[1]
           instance == [id |-> 1, event |-> event.index] @@
                       Instrument_create_event_instance(
                            Instrument_finalise(instruments[event.instrument_index + 1]),
                            to_samples(event.duration, InvocationStream.sample_rate),
                            event.init_args, event.perf_args)
       IN invocation' = [func |-> "InitFunc", ip |-> 0, instance |-> instance,
                         st |-> run_ops_entry(instance, FALSE, InvocationStream),
                         last |-> <<>>, stream |-> InvocationStream, block |-> 1]
    /\ UNCHANGED << instruments, score_events, compiler >>
    /\ RunUnchanged

Running ==
    /\ invocation.func \in {"InitFunc", "PerfFunc"}
    /\ ~invocation.st.panicked

\* One pass of the loop of run_ops.  `last` keeps the op and the stack it
\* found.
Step ==
    /\ Running
    /\ invocation.ip < Len(OpsOf(invocation))
    /\ LET op == OpsOf(invocation)[invocation.ip + 1]
       IN \E r \in { run_op(invocation.st, op, ArgsOf(invocation), invocation.stream) } :
            invocation' = [invocation EXCEPT
                !.ip = @ + 1, !.st = r,
                !.last = << [op |-> op.op, stack |-> invocation.st.stack] >>]
    /\ UNCHANGED << instruments, score_events, compiler >>
    /\ RunUnchanged

\* run_ops returns: the instance keeps its members and the components of the
\* function; after init the perf of the same call of get_next_buffer follows,
\* after perf run_perf counts the samples of the block.
Return ==
    /\ Running
    /\ invocation.ip = Len(OpsOf(invocation))
    /\ LET st == invocation.st
           instance ==
              IF invocation.func = "PerfFunc"
              THEN [invocation.instance EXCEPT
                        !.variables = st.variables,
                        !.perf_func.components = st.components,
                        !.sample_counter = @ + invocation.stream.buffer_size]
              ELSE [invocation.instance EXCEPT !.variables = st.variables,
                                               !.init_func.components = st.components]
       IN IF invocation.func = "InitFunc"
          THEN invocation' = [invocation EXCEPT
                                !.func = "PerfFunc", !.ip = 0, !.instance = instance,
                                !.st = run_ops_entry(instance, TRUE, invocation.stream),
                                !.last = <<>>]
          ELSE invocation' = [invocation EXCEPT !.func = "returned",
                                                !.instance = instance]
    /\ UNCHANGED << instruments, score_events, compiler >>
    /\ RunUnchanged

\* The next call of get_next_buffer, with the frame count the caller asks
\* for: run_perf of the instance, unless its last run_perf said it was over.
NextBuffer ==
    /\ invocation.func = "returned"
    /\ invocation.block < MaxBlocks
    /\ invocation.instance.sample_counter < invocation.instance.duration_samples
    /\ \E buffer_size \in InvocationFrames :
         LET stream_info == StreamInfo(InvocationStream.sample_rate, buffer_size,
                                       InvocationStream.channels)
         IN invocation' = [invocation EXCEPT
                             !.func = "PerfFunc", !.ip = 0,
                             !.st = run_ops_entry(invocation.instance, TRUE, stream_info),
                             !.last = <<>>, !.stream = stream_info, !.block = @ + 1]
    /\ UNCHANGED << instruments, score_events, compiler >>
    /\ RunUnchanged

\* ---- the sources compiled
MaxItems == 2             \* members and functions of a source of declarations
MaxBody == 2              \* declarations and statements of a function body
MaxCalls == 2             \* init(...) and perf(...) calls of a score event

Member(variable_name, variable_type) ==
    [token |-> "Identifier", variable_name |-> variable_name,
     variable_type |-> variable_type]

Single(p) == Term(Factor(p, <<>>), <<>>)
Binary(lhs, token, rhs) ==
    IF token \in {"Plus", "Minus"}
    THEN Term(Factor(lhs, <<>>), << Pair(token, Factor(rhs, <<>>)) >>)
    ELSE Term(Factor(lhs, << Pair(token, rhs) >>), <<>>)

IntLit == Primary_lit("Integer", << "2" >>)
FloatLit == Primary_lit("Float", << "3", ".", "0" >>)
StringLit == Primary_lit("String", << "\"", "a", "\"" >>)
NoiseCall == Primary_call("Noise", << Single(FloatLit) >>)
OscilCall ==
    Primary_call("Oscil", << Single(FloatLit), Single(FloatLit), Single(IntLit) >>)

\* 2, 3.0, "a", Noise(3.0), the local y and the member x: an operand of
\* each type.
Operands ==
    {IntLit, FloatLit, StringLit, NoiseCall, Primary_ident("y"), Primary_ident("x")}
OperatorTokens == {"Plus", "Minus", "Star", "Slash"}

Expressions ==
    { Single(p) : p \in Operands \cup {OscilCall} }
    \cup { Binary(lhs, token, rhs) :
            lhs \in Operands, token \in OperatorTokens, rhs \in Operands }
    \cup { Term(Factor(IntLit, <<>>),
                << Pair("Plus", Factor(FloatLit, << Pair("Star", IntLit) >>)) >>),
           Single(Primary_paren(Binary(IntLit, "Plus", FloatLit))),
           Binary(FloatLit, "Star", Primary_paren(Binary(IntLit, "Plus", FloatLit))),
           Single(Primary_call("Noise", <<>>)),
           Single(Primary_call("Noise", << Single(IntLit) >>)),
           Single(Primary_call("Noise", << Single(FloatLit), Single(FloatLit) >>)),
           Single(Primary_call("Gain", << Single(FloatLit) >>)) }

Statements ==
    { Statement("Print", "", << e >>) : e \in Expressions }
    \cup { Statement("Print", "", << >>), Statement("PrintLn", "", << >>),
           Statement("PrintLn", "", << Single(IntLit) >>) }
    \cup { Statement("Output", "", << e >>) :
            e \in { Single(p) : p \in Operands \cup {OscilCall} }
                  \cup { Binary(NoiseCall, token, rhs) :
                            token \in OperatorTokens, rhs \in Operands } }
    \cup { Statement("Identifier", name, << Single(p) >>) :
            name \in {"x", "y"}, p \in {IntLit, NoiseCall, Primary_ident("y")} }

\* What a body starts with: a local y of each type, or the member x assigned.
Setups ==
    { Local("y", "Int", Single(IntLit)), Local("y", "Float", Single(FloatLit)),
      Local("y", "String", Single(StringLit)), Local("y", "Audio", Single(NoiseCall)),
      Local("y", "Int", Binary(Primary_ident("y"), "Plus", IntLit)),
      Statement("Identifier", "x", << Single(FloatLit) >>),
      Statement("Identifier", "x", << Single(NoiseCall) >>) }

PlainEvent == EventSource("i", 0, 1, <<>>)

\* A member x of some type or none, one function whose body is setups and
\* a statement, and an event that plays the instrument.
ExpressionSources ==
    \E members \in {<<>>} \cup { << Member("x", type) >> : type \in VariableTypes },
       context \in {"InitFunc", "PerfFunc"},
       n \in 0..(MaxBody - 1), s \in Statements :
        \E setup \in [1..n -> Setups] :
            compiler = Compiler_new(
                Source(members \o << FunctionSource(context, <<>>, setup \o << s >>) >>,
                       << PlainEvent >>))

DeclaredArgs ==
    { <<>>, << InstrumentVariable("x", "Int") >>,
      << InstrumentVariable("x", "Int"), InstrumentVariable("y", "Float") >>,
      << InstrumentVariable("y", "Audio") >> }

DeclaredLocals ==
    { <<>>, << Local("x", "Int", Single(IntLit)) >>,
      << Local("y", "Float", Single(FloatLit)) >>,
      << Local("y", "Int", Single(IntLit)), Local("y", "Int", Single(IntLit)) >> }

DeclarationItems ==
    { Member(name, type) : name \in {"x", "y", "Gain"}, type \in {"Int", "Float"} }
    \cup { FunctionSource(context, args, body) :
            context \in {"InitFunc", "PerfFunc"}, args \in DeclaredArgs,
            body \in DeclaredLocals }

\* Members and functions in any order.
DeclarationSources ==
    \E n \in 0..MaxItems :
        \E items \in [1..n -> DeclarationItems] :
            compiler = Compiler_new(Source(items, <<>>))

\* The functions of the instruments the score events are written for.
Parameters ==
    { <<>>, << InstrumentVariable("a", "Int") >>,
      << InstrumentVariable("a", "Int"), InstrumentVariable("b", "Float") >> }

BodyReading(args) ==
    IF args = <<>> THEN <<>>
    ELSE << Statement("Print", "",
                      << Single(Primary_ident(args[Len(args)].variable_name)) >>) >>

ArgTokens ==
    { <<>>, << IntLit >>, << FloatLit >>, << IntLit, FloatLit >>,
      << IntLit, FloatLit, FloatLit >> }

CallSources ==
    { CallSource(context, args) : context \in {"InitFunc", "PerfFunc"}, args \in ArgTokens }

\* What follows the event in the score block: nothing, or an event of an
\* instrument nobody declared.
FollowingEvents == { <<>>, << EventSource("j", 0, 1, <<>>) >> }

ScoreSources ==
    \E init \in Parameters, perf \in Parameters, name \in {"i", "j"}, n \in 0..MaxCalls :
        \E cs \in [1..n -> CallSources], following \in FollowingEvents :
            compiler = Compiler_new(
                Source(<< FunctionSource("InitFunc", init, BodyReading(init)),
                          FunctionSource("PerfFunc", perf, BodyReading(perf)) >>,
                       << EventSource(name, 0, 1, cs) >> \o following))

\* An Audio member x that init fills, and a perf that reads it, played for
\* a second.
CarriedStatements ==
    { Statement("Output", "", << Single(Primary_ident("x")) >>),
      Statement("Print", "", << Single(Primary_ident("x")) >>) }
    \cup { Statement("Output", "", << Binary(NoiseCall, token, Primary_ident("x")) >>) :
            token \in OperatorTokens }

CarriedSources ==
    \E s \in CarriedStatements :
        compiler = Compiler_new(
            Source(<< Member("x", "Audio"),
                      FunctionSource("InitFunc", <<>>,
                          << Statement("Identifier", "x", << Single(NoiseCall) >>) >>),
                      FunctionSource("PerfFunc", <<>>, << s >>) >>,
                   << EventSource("i", 0, TimeDen, <<>>) >>))

CompileInit ==
    /\ InitVM
    /\ invocation = NoInvocation
    /\ proc = Process(<<>>)
    /\ \/ ExpressionSources
       \/ DeclarationSources
       \/ ScoreSources
       \/ CarriedSources

CompileNext ==
    \/ Instrument_member_variable
    \/ Instrument_function
    \/ Instrument_BraceClose
    \/ ScoreEvent
    \/ Invoke
    \/ Step
    \/ Return
    \/ NextBuffer

SpecCompile == CompileInit /\ [][CompileNext]_vars


\* ---------------------------------------------------- main and its program
MaxProgramBlocks == 2     \* instruments and score blocks of a program

\* The loop `for arg in args.iter().skip(2)` of main from the k-th argument
\* on: whether it ends without an ArgumentError, and the output target.
RECURSIVE main_args(_, _, _)
main_args(args, k, target) ==
    IF k > Len(args) THEN [ok |-> TRUE, output_target |-> target]
    ELSE IF args[k] = "--dac"
    THEN IF target # "None" THEN [ok |-> FALSE, output_target |-> target]
         ELSE main_args(args, k + 1, "Dac")
    ELSE IF args[k] = "--file"
    THEN IF target # "None" THEN [ok |-> FALSE, output_target |-> target]
         ELSE main_args(args, k + 1, "File")
    ELSE [ok |-> FALSE, output_target |-> target]

\* What main and the steps of compile leave alone in the VM.
DriverUnchanged ==
    UNCHANGED << sorted_score_events, active_score_events, sample_counter,
                 audio_config, perf_count, pc, output_target, len, driver_counter,
                 samples, buffer, outputs, calls, blocks, instance_count, rc_vars >>

Exit(status) == [proc EXCEPT !.at = "exit", !.status = status]

\* main up to read_to_string: too few arguments, or the loop over them.
Main_args ==
    /\ proc.at = "args"
    /\ proc' =
         IF Len(proc.args) < 2 THEN Exit("Err")
         ELSE LET r == main_args(proc.args, 3, "None")
              IN IF ~r.ok THEN Exit("Err")
                 ELSE [proc EXCEPT !.at = "read", !.output_target = r.output_target]
    /\ UNCHANGED << instruments, score_events, compiler, invocation >>
    /\ DriverUnchanged

\* An instrument of the source: name { members and functions }.
InstrumentSource(text, items) == [token |-> "Identifier", text |-> text, items |-> items]

\* A block of the source: instruments { ... } or score { ... }.
Block(token, body) == [token |-> token, body |-> body]

PlainInstrument == InstrumentSource("i", <<>>)

\* i, j and Gain without members, and i with a member, a parameter and a local
\* called Gain.
InstrumentSources ==
    { InstrumentSource(text, <<>>) : text \in {"i", "j", "Gain"} }
    \cup { InstrumentSource("i", << item >>) :
            item \in { Member("Gain", "Int"),
                       FunctionSource("InitFunc", << InstrumentVariable("Gain", "Int") >>,
                                      <<>>),
                       FunctionSource("PerfFunc", <<>>,
                                      << Local("Gain", "Int", Single(IntLit)) >>) } }

Blocks ==
    { Block("InstrumentsIdent", body) :
        body \in {<<>>} \cup { << a >> : a \in InstrumentSources }
                 \cup { << PlainInstrument, InstrumentSource(text, <<>>) >> :
                            text \in {"i", "j"} } }
    \cup { Block("ScoreIdent", body) :
            body \in { <<>>, << PlainEvent >>, << EventSource("j", 0, 1, <<>>) >>,
                       << PlainEvent, EventSource("j", 0, 1, <<>>) >> } }

\* read_to_string: an I/O error, or the source, with which compile_and_run
\* makes the Compiler and its VM, and compile scans the first token.
Main_read ==
    /\ proc.at = "read"
    /\ \/ proc' = Exit("Err") /\ UNCHANGED compiler
       \/ \E n \in 0..MaxProgramBlocks :
            \E code \in [1..n -> Blocks] :
                /\ proc' = [proc EXCEPT !.at = "compile", !.read = TRUE,
                                               !.program = code, !.code = code]
                /\ compiler' = [Compiler_new(Source(<<>>, <<>>)) EXCEPT !.scanner = "top"]
    /\ UNCHANGED << instruments, score_events, invocation >>
    /\ DriverUnchanged

\* The loop of compile at `instruments` or `score`: the block opens.
Compile_block ==
    /\ proc.at = "compile"
    /\ Scanning("top")
    /\ proc.code # <<>>
    /\ LET block == Head(proc.code)
       IN compiler' =
            IF block.token = "InstrumentsIdent"
            THEN [compiler EXCEPT !.scanner = "instruments",
                                  !.source = Source(block.body, <<>>)]
            ELSE [compiler EXCEPT !.scanner = "score",
                                  !.source = Source(<<>>, block.body)]
    /\ proc' = [proc EXCEPT !.code = Tail(@)]
    /\ UNCHANGED << instruments, score_events, invocation >>
    /\ DriverUnchanged

\* The loop of Compiler::instrument over the members and functions left in
\* self.source.items.
RECURSIVE instrument_loop(_)
instrument_loop(self) ==
    IF self.had_error \/ self.source.items = <<>> THEN self
    ELSE instrument_loop(
            IF Head(self.source.items).token = "Identifier"
            THEN member_variable([self EXCEPT !.source.items = Tail(@)],
                                 Head(self.source.items))
            ELSE function([self EXCEPT !.source.items = Tail(@)],
                          Head(self.source.items)))

\* Compiler::instrument up to add_instrument: the Instrument of that name
\* with what its members and functions made of it.
Compiler_instrument(self, source) ==
    instrument_loop([self EXCEPT !.instrument = Instrument_new(source.text),
                                 !.source.items = source.items])

\* Compiler::instrument for the next instrument of the block, without its
\* call of add_instrument.
Instrument_without_add ==
    /\ proc.at = "compile"
    /\ Scanning("instruments")
    /\ compiler.source.items # <<>>
    /\ \E r \in { Compiler_instrument(compiler, Head(compiler.source.items)) } :
         /\ compiler' = [r EXCEPT !.source.items = Tail(compiler.source.items)]
         /\ instruments' = instruments
    /\ UNCHANGED << score_events, invocation, proc >>
    /\ DriverUnchanged

\* The loop of instruments_block at an identifier: Compiler::instrument, which
\* hands the instrument to add_instrument unless an error was reported.
Instrument ==
    /\ proc.at = "compile"
    /\ Scanning("instruments")
    /\ compiler.source.items # <<>>
    /\ \E r \in { Compiler_instrument(compiler, Head(compiler.source.items)) } :
         /\ compiler' = [r EXCEPT !.source.items = Tail(compiler.source.items)]
         /\ instruments' = IF r.had_error THEN instruments
                           ELSE Append(instruments, r.instrument)
    /\ UNCHANGED << score_events, invocation, proc >>
    /\ DriverUnchanged

\* The loops of instruments_block and score_block at the closing brace.
BlockClose ==
    /\ proc.at = "compile"
    /\ ~compiler.had_error
    /\ compiler.scanner \in {"instruments", "score"}
    /\ compiler.source.items = <<>>
    /\ compiler.source.score = <<>>
    /\ compiler' = [compiler EXCEPT !.scanner = "top"]
    /\ UNCHANGED << instruments, score_events, invocation, proc >>
    /\ DriverUnchanged

\* compile returns, at the end of the file or at an error, and compile_and_run
\* goes on: with an error it says so and returns Ok(()), without it calls run.
CompileEnd ==
    /\ proc.at = "compile"
    /\ \/ compiler.had_error
       \/ compiler.scanner = "top" /\ proc.code = <<>>
    /\ proc' = IF compiler.had_error THEN Exit("Ok")
                  ELSE [proc EXCEPT !.at = "run"]
    /\ UNCHANGED << instruments, score_events, compiler, invocation >>
    /\ DriverUnchanged

\* Compiler::run: VM::run with the output target of the arguments.
Main_run ==
    /\ proc.at = "run"
    /\ Run(proc.output_target)

\* VM::run in device mode when Stream::new or play returns an error.
Main_run_no_device ==
    /\ proc.at = "run"
    /\ pc = "compile"
    /\ proc.output_target = "Dac"
    /\ proc' = Exit("Err")
    /\ UNCHANGED << instruments, score_events, compiler, invocation >>
    /\ DriverUnchanged

\* VM::run returns and main with it, or the run panicked.  write_to_file
\* returns Ok(()) whether write_from_slice wrote the samples or not.
Main_exit ==
    /\ proc.at = "run"
    /\ pc \in {"done", "panicked"}
    /\ \E written \in IF pc = "done" /\ proc.output_target = "File"
                       THEN BOOLEAN ELSE {FALSE} :
         proc' = [proc EXCEPT !.at = "exit", !.written = written,
                                    !.status = IF pc = "done" THEN "Ok" ELSE "panic"]
    /\ UNCHANGED << instruments, score_events, compiler, invocation >>
    /\ DriverUnchanged

\* The arguments of a run: none, the path, the path with a target, with both
\* targets, with one twice, and with something else.
ArgLists ==
    { << "ral" >>, << "ral", "a.ral" >>, << "ral", "a.ral", "--dac" >>,
      << "ral", "a.ral", "--file" >>, << "ral", "a.ral", "--dac", "--file" >>,
      << "ral", "a.ral", "--file", "--file" >>, << "ral", "a.ral", "--wav" >> }

MainInit ==
    /\ InitVM
    /\ compiler = Compiler_new(Source(<<>>, <<>>))
    /\ invocation = NoInvocation
    /\ \E args \in ArgLists : proc = Process(args)

MainNext ==
    \/ Main_args
    \/ Main_read
    \/ Compile_block
    \/ Instrument
    \/ ScoreEvent
    \/ BlockClose
    \/ CompileEnd
    \/ Main_run
    \/ Main_run_no_device
    \/ WriteToFileBlock
    \/ WriteToFileEnd
    \/ RunNoOutputBlock
    \/ RunNoOutputEnd
    \/ \E frames \in CallbackFrames : AudioCallback(frames)
    \/ StreamEnd
    \/ Main_exit

SpecMain == MainInit /\ [][MainNext]_vars


\* ---- what the compiler decided and what the interpreter met
BinaryOps == {"Add", "Divide", "Multiply", "Subtract"}

\* The operator of the Value that run_ops applies for a binary op.
Value_binary(op, lhs, rhs) ==
    CASE op = "Add" -> Value_add(lhs, rhs)
      [] op = "Divide" -> Value_div(lhs, rhs)
      [] op = "Multiply" -> Value_mul(lhs, rhs)
      [] op = "Subtract" -> Value_sub(lhs, rhs)

\* A value of each tag, no number of them zero.
ValueOfType(type) ==
    CASE type = "Int" -> Value_int(1)
      [] type = "Float" -> Value_float(1)
      [] type = "String" -> Value_string(<< "a" >>)
      [] type = "Audio" -> Value_audio(AudioBuffer_new(1, 1))

\* The operator has an arm for the two tags.
Implemented(op, lhs, rhs) ==
    Value_binary(op, ValueOfType(lhs), ValueOfType(rhs)) # Panic

\* A binary op has just run on the operands lhs and rhs and left a value.
Computed ==
    /\ invocation.func \in {"InitFunc", "PerfFunc"}
    /\ invocation.last # <<>>
    /\ invocation.last[1].op \in BinaryOps
    /\ ~invocation.st.panicked

LastLhs == invocation.last[1].stack[Len(invocation.last[1].stack) - 1]
LastRhs == invocation.last[1].stack[Len(invocation.last[1].stack)]

\* What term or factor decided for the op that has just run.
ChecksOfLast ==
    { k \in 1..Len(compiler.checks) :
        /\ compiler.checks[k].accepted
        /\ compiler.checks[k].context = invocation.func
        /\ compiler.checks[k].index = invocation.ip }

Promoted(lhs, rhs) ==
    IF "Audio" \in {lhs, rhs} THEN "Audio"
    ELSE IF "Float" \in {lhs, rhs} THEN "Float" ELSE "Int"

Arithmetic == {"Audio", "Float", "Int"}

Numeric == {"Float", "Int"}
Legal(op, lhs, rhs) ==
    \/ lhs \in Numeric /\ rhs \in Numeric
    \/ lhs = "Audio" /\ rhs = "Audio"
    \/ lhs = "Audio" /\ rhs \in Numeric
    \/ lhs \in Numeric /\ rhs = "Audio"
    \/ op = "Add" /\ lhs = "String" /\ rhs = "String"

\* C15: term and factor accept an operator on the operand types (L, R)
\* exactly when both are numeric, or both Audio, or one Audio and the other
\* numeric, or the operator is + on two Strings.
C15_AcceptsExactlyTheLegalPairs ==
    \A k \in 1..Len(compiler.checks) :
        LET c == compiler.checks[k]
        IN c.accepted <=> Legal(c.op, c.lhs, c.rhs)

\* C16: a binary op of a program compiled without error never meets operands
\* its Value operator has no arm for.
C16_AcceptedOperatorsAreImplemented ==
    Running /\ invocation.ip < Len(OpsOf(invocation))
    => LET op == OpsOf(invocation)[invocation.ip + 1]
           stack == invocation.st.stack
           n == Len(stack)
       IN op.op \in BinaryOps /\ n >= 2
            => Implemented(op.op, stack[n - 1].value_type, stack[n].value_type)

\* The values the arm of run_ops for op pops.
Pops(op, st) ==
    CASE op.op \in BinaryOps -> 2
      [] op.op \in {"AssignLocal", "AssignMember", "DeclareLocal", "Output", "Print",
                    "PrintLn"} -> 1
      [] op.op = "CallComponent" -> st.components[op.arg + 1].arg_count
      [] OTHER -> 0

\* C17: an invocation of init or perf of a program compiled without error
\* starts with the empty stack, meets no op that pops more than the stack
\* holds, and returns with the empty stack.
C17_StackEmptyAtEntryAndReturn ==
    /\ invocation.func \in {"InitFunc", "PerfFunc"} =>
          /\ invocation.ip = 0 => invocation.st.stack = <<>>
          /\ ~invocation.st.panicked /\ invocation.ip < Len(OpsOf(invocation))
                => Len(invocation.st.stack)
                      >= Pops(OpsOf(invocation)[invocation.ip + 1], invocation.st)
          /\ ~invocation.st.panicked /\ invocation.ip = Len(OpsOf(invocation))
                => invocation.st.stack = <<>>
    /\ invocation.func = "returned" => invocation.st.stack = <<>>

\* perf has returned after a local declared from a component, an operator on
\* it and an output.
C17_Witness ==
    /\ invocation.func = "returned"
    /\ LET ops == invocation.instance.perf_func.ops
       IN \A name \in {"CallComponent", "DeclareLocal", "LoadLocal", "Multiply",
                       "Output"} :
            \E i \in 1..Len(ops) : ops[i].op = name

\* ---- one instance at a time
\* The stream of the call of get_next_buffer that a step makes.
StreamOfStep ==
    StreamInfo(audio_config.sample_rate, buffer'.buffer_size, buffer'.channels)

\* An environment of run_ops with nothing in it.
AloneEnv(stream_info) ==
    [buffer |-> AudioBuffer_new(stream_info.channels, stream_info.buffer_size),
     rng |-> [seed |-> 0, draws |-> 0], outputs |-> <<>>, panicked |-> FALSE]

\* The instance create_event_instance makes for the score event of `after`.
CreatedFor(after, stream_info) ==
    LET event == score_events[after.event]
    IN [id |-> after.id, event |-> after.event] @@
       Instrument_create_event_instance(
           instruments[event.instrument_index + 1],
           to_samples(event.duration, stream_info.sample_rate),
           event.final_init_args, event.final_perf_args)

\* What the component slots and the sample counter of an instance are.
SlotState(instance) ==
    [init |-> instance.init_func.components,
     perf |-> instance.perf_func.components,
     sample_counter |-> instance.sample_counter]

\* The instance with the id of `after` before the step, if it was live.
Before(after) ==
    { active_score_events[j] : j \in { j \in 1..Len(active_score_events) :
                                          active_score_events[j].id = after.id } }

\* A call of get_next_buffer leaves every instance that was live before it
\* as its own perf, run alone, makes it, and every instance it created as
\* init and perf, run alone on a fresh instance of the prototype, make it.
RunsAlone ==
    perf_count' # perf_count /\ pc' # "panicked" =>
      /\ instruments' = instruments
      /\ \A k \in 1..Len(active_score_events') :
              LET after == active_score_events'[k]
                  stream_info == StreamOfStep
              IN IF Before(after) # {}
                 THEN \A before \in Before(after) :
                          after = run_perf(before, stream_info,
                                           AloneEnv(stream_info)).instance
                 ELSE SlotState(after) =
                          SlotState(run_perf(
                              run_init(CreatedFor(after, stream_info), stream_info,
                                       AloneEnv(stream_info)).instance,
                              stream_info, AloneEnv(stream_info)).instance)

LiveIn(id, b) ==
    /\ \E k \in CallsOf("create", id) : calls[k].block <= b
    /\ \A k \in CallsOf("retire", id) : calls[k].block >= b

PerfsIn(id, b) == { k \in CallsOf("perf", id) : calls[k].block = b }

\* C27: in each call of get_next_buffer every instance in the active list,
\* live from earlier calls or activated in this one, has perf run exactly
\* once, also when instances are removed during the pass; an instance not
\* in the list has none.
C27_PerfOncePerLiveInstance ==
    pc \notin {"compile", "panicked"} =>
        \A id \in Instances, b \in 1..perf_count :
            Cardinality(PerfsIn(id, b)) = IF LiveIn(id, b) THEN 1 ELSE 0

\* An instance was removed during a perf pass, and the instance behind it
\* in the list, live from an earlier call, ran perf in the same pass.
C27_Witness ==
    /\ pc \notin {"compile", "panicked"}
    /\ \E k \in 1..Len(calls), j \in 1..Len(calls) :
          /\ calls[k].op = "retire"
          /\ calls[j].op = "perf"
          /\ k < j
          /\ calls[j].block = calls[k].block
          /\ calls[j].id # calls[k].id
          /\ \E c \in CallsOf("create", calls[j].id) : calls[c].block < calls[j].block

\* C29: when the driver of a file-mode or none-mode run has stopped
\* producing blocks, every score event of the program has been activated:
\* its init has run.
C29_EveryEventActivatedBeforeStop ==
    pc = "done" /\ output_target \in {"File", "None"} =>
        \A e \in 1..Len(score_events) :
            \E k \in 1..Len(calls) : calls[k].op = "init" /\ calls[k].event = e

\* The DeclareLocal ops the invocation has executed.
DeclaredSoFar ==
    Cardinality({ k \in 1..invocation.ip : OpsOf(invocation)[k].op = "DeclareLocal" })

\* C28: every LoadLocal(i) and AssignLocal(i) that an invocation of a program
\* compiled without error executes has i smaller than the number of
\* DeclareLocal ops the invocation has executed.
C28_LocalsUsedAfterDeclaration ==
    Running /\ invocation.ip < Len(OpsOf(invocation)) =>
        LET op == OpsOf(invocation)[invocation.ip + 1]
        IN op.op \in {"LoadLocal", "AssignLocal"} => op.arg < DeclaredSoFar

\* C24: each member slot of an event instance holds a value whose tag is the
\* declared type of the member, from the creation of the instance on.
C24_MemberSlotsHoldDeclaredType ==
    invocation.func \in {"InitFunc", "PerfFunc"} =>
        \A k \in 1..Len(invocation.st.variables) :
            invocation.st.variables[k].value_type
                = member_type(compiler.instrument, k - 1)

\* C21: once a compile error is reported the VM never runs -- no finalise, no
\* init, no perf, no output block -- and had_error, once set, stays set.
NothingRun ==
    /\ invocation.func = "none"
    /\ sorted_score_events = <<>> /\ active_score_events = <<>>
    /\ calls = <<>> /\ blocks = <<>> /\ outputs = <<>> /\ perf_count = 0
ErrorStops ==
    /\ compiler.had_error => compiler'.had_error
    /\ compiler'.had_error => NothingRun'
C21_NoRunAfterCompileError == [][ErrorStops]_vars
\* An event was accepted, the next one names an unknown instrument.
C21_Witness ==
    /\ compiler.had_error /\ score_events # <<>>
    /\ compiler.scanner = "score" /\ invocation.func = "none"

\* C30: whatever frame counts the calls of get_next_buffer come with, the
\* Audio value that Output is about to take, and each Audio operand of an
\* operator about to combine two Audio values, has the frame count of the
\* block being filled.
FitsBlock(v) ==
    v.value_type = "Audio" => get_audio(v).buffer_size = invocation.stream.buffer_size
C30_AudioOperandsFitBlock ==
    Running /\ invocation.ip < Len(OpsOf(invocation)) =>
        LET op == OpsOf(invocation)[invocation.ip + 1]
            stack == invocation.st.stack
            n == Len(stack)
        IN /\ op.op = "Output" /\ n >= 1 => FitsBlock(stack[n])
           /\ op.op \in BinaryOps /\ n >= 2
                /\ stack[n].value_type = "Audio" /\ stack[n - 1].value_type = "Audio"
                => FitsBlock(stack[n]) /\ FitsBlock(stack[n - 1])

\* ---- the process and its program
\* A path, and after it at most one of --dac and --file.
ArgsValid ==
    /\ Len(proc.args) \in {2, 3}
    /\ Len(proc.args) = 3 => proc.args[3] \in {"--dac", "--file"}

\* The run came to its end, and in file mode the samples were written.
RunSucceeded ==
    /\ pc = "done"
    /\ proc.output_target = "File" => proc.written

\* C22: the process ends in success only when the arguments are valid, the
\* source was read, compilation reported no error and the run succeeded; an
\* argument error, an I/O error and a compilation failure end it otherwise.
C22_SuccessOnlyWhenAllSucceeded ==
    proc.at = "exit" /\ proc.status = "Ok" =>
        ArgsValid /\ proc.read /\ ~compiler.had_error /\ RunSucceeded

\* The compiler stands before a score event.
AtScoreEvent ==
    proc.at = "compile" /\ Scanning("score") /\ compiler.source.score # <<>>

DeclaresInstrument(block, name) ==
    /\ block.token = "InstrumentsIdent"
    /\ \E k \in 1..Len(block.body) : block.body[k].text = name

\* The place in the program of the block the compiler is in.
CurrentBlock == Len(proc.program) - Len(proc.code)

DeclaredSomewhere(name) ==
    \E b \in 1..Len(proc.program) : DeclaresInstrument(proc.program[b], name)

DeclaredBefore(name) ==
    \E b \in 1..(CurrentBlock - 1) : DeclaresInstrument(proc.program[b], name)

\* C23 as stated: a score event is a compile error exactly when no
\* instruments block of the program, before or after it, declares its
\* instrument.
EventNeedsSomeDeclaration ==
    AtScoreEvent =>
        (compiler'.had_error
            <=> ~DeclaredSomewhere(Head(compiler.source.score).instrument_name))
C23_AcceptedWhateverTheOrder == [][EventNeedsSomeDeclaration]_vars

\* C23, amended: blocks come in any order and number, and a score event is a
\* compile error exactly when no instruments block before its score block
\* declares its instrument, whether or not a later block does.
EventNeedsEarlierDeclaration ==
    AtScoreEvent =>
        (compiler'.had_error
            <=> ~DeclaredBefore(Head(compiler.source.score).instrument_name))
C23_AcceptedWhenDeclaredBefore == [][EventNeedsEarlierDeclaration]_vars

\* The event score_event has just looked at.
LastEvent ==
    LET body == proc.program[CurrentBlock].body
    IN body[Len(body) - Len(compiler.source.score)]

\* An event was refused though the next block declares its instrument.
C23_Witness ==
    /\ proc.at = "compile" /\ compiler.had_error /\ compiler.scanner = "score"
    /\ proc.code # <<>>
    /\ DeclaresInstrument(Head(proc.code), LastEvent.instrument_name)

\* C25: after a compilation without error no two instruments of the VM have
\* the same name, and the instrument of every score event is the only one
\* of its name.
C25_InstrumentNamesUnique ==
    proc.at \in {"run", "exit"} /\ proc.read /\ ~compiler.had_error =>
        /\ \A i, j \in 1..Len(instruments) :
              instruments[i].instrument_name = instruments[j].instrument_name => i = j
        /\ \A e \in 1..Len(score_events) :
              Cardinality({ i \in 1..Len(instruments) :
                              instruments[i].instrument_name =
                                instruments[score_events[e].instrument_index + 1]
                                    .instrument_name }) = 1

\* The names an instrument of the source declares: its own, its members, its
\* parameters and its locals.
DeclaredNames(source) ==
    {source.text}
    \cup UNION { IF source.items[k].token = "Identifier"
                 THEN {source.items[k].variable_name}
                 ELSE { source.items[k].args[a].variable_name :
                            a \in 1..Len(source.items[k].args) }
                      \cup { source.items[k].body[b].text :
                                b \in { c \in 1..Len(source.items[k].body) :
                                          source.items[k].body[c].token = "Local" } } :
                 k \in 1..Len(source.items) }

\* C26: an instrument, a member, a parameter or a local declared with a name
\* that begins with an uppercase letter is a compile error: had_error is set
\* and the instrument does not reach the program.
CapitalisedRejected ==
    /\ proc.at = "compile" /\ Scanning("instruments")
    /\ compiler.source.items # <<>>
    /\ \E name \in DeclaredNames(Head(compiler.source.items)) : is_uppercase(name)
    => compiler'.had_error /\ instruments' = instruments
C26_CapitalisedNamesRejected == [][CapitalisedRejected]_vars

Names(variables) == { variables[i].variable_name : i \in 1..Len(variables) }

\* C19: in an instrument compiled without error the names of the members,
\* of the parameters of a function and of the locals of that function are
\* pairwise disjoint.
C19_NamesPairwiseDisjoint ==
    ~compiler.had_error =>
        \A context \in {"InitFunc", "PerfFunc"} :
            LET f == func_of(compiler.instrument, context)
                members == Names(compiler.instrument.variables)
            IN /\ members \cap Names(f.args) = {}
               /\ members \cap Names(f.locals) = {}
               /\ Names(f.args) \cap Names(f.locals) = {}

TagsOf(values) == [i \in 1..Len(values) |-> values[i].value_type]
TypesOf(variables) == [i \in 1..Len(variables) |-> variables[i].variable_type]

\* C20: every score event added to the VM has the init and perf arguments
\* its instrument's init and perf have parameters, in number and in type.
C20_EventArgsMatchParameters ==
    \A e \in 1..Len(score_events) :
        LET instrument == instruments[score_events[e].instrument_index + 1]
        IN /\ TagsOf(score_events[e].init_args) = TypesOf(instrument.init_func.args)
           /\ TagsOf(score_events[e].perf_args) = TypesOf(instrument.perf_func.args)
====
